---- MODULE Spec2Model ----
(***************************************************************************)
(* The story compiler of pick_a_page (src/pick_a_page/compiler.py):        *)
(* StoryCompiler.parse turns story text into a Story, and                  *)
(* StoryCompiler.validate turns a Story into a list of diagnostics.        *)
(*                                                                         *)
(* Strings are sequences of one-character strings, so that the regular     *)
(* expressions, strip, split and the identifier normalisation are computed *)
(* character by character.  Python's None is the value None below.         *)
(***************************************************************************)
EXTENDS Naturals, Sequences, FiniteSets, TLC

VARIABLES
    content,    \* the text handed to parse
    outcome,    \* what parse did with it: nothing yet, a Story, or a raise
    story,      \* the Story handed to validate
    errors,     \* the list validate returned
    reachable,  \* validate's local set `reachable` when it returned
    expanded,   \* the identifiers _mark_reachable added, in call order
    raised,     \* TRUE when validate ended in an exception
    pc,         \* "ready" before the call, "done" after it
    calls,      \* the calls of parse and validate that run side by side
    instance,   \* the attributes of the StoryCompiler instance they share
    objects,    \* the number of Story objects constructed so far
    output,     \* what a compile entry point has done: files, report
    page        \* the generated page in the browser

vars == <<content, outcome, story, errors, reachable, expanded, raised, pc,
          calls, instance, objects, output, page>>

\* The variables of the specifications of concurrent calls, of the compile
\* entry points and of the generated page.
others == <<calls, instance, objects, output, page>>

\* No concurrent call, no entry point and no page is part of the run.
OthersIdle ==
    /\ calls = <<>>
    /\ instance = <<>>
    /\ objects = 0
    /\ output = <<>>
    /\ page = <<>>

\* Python's None; no string is equal to it.
None == <<"None">>

\* Python truthiness of an Optional[str]: None and "" are false.
Truthy(s) == s # None /\ s # <<>>

Min(S) == CHOOSE m \in S : \A n \in S : m <= n

----------------------------------------------------------------------------
(* Bounds of the model.                                                    *)

\* The most choices a story model handed to validate holds, all sections
\* together.
MaxChoices == 3

\* The depth of nested _mark_reachable calls after which the interpreter
\* gives up with RecursionError.  A traversal that visits every identifier
\* once nests at most one call per identifier plus one.
MaxDepth == 8

----------------------------------------------------------------------------
(* validate                                                                *)

\* The diagnostics, one record per message format.
StartMissing(start) == [kind |-> "start", name |-> start]
Dangling(section, target) == [kind |-> "dangling", section |-> section, target |-> target]
Orphaned(name) == [kind |-> "orphan", name |-> name]

\* {section.name for section in story.sections}
section_names(s) == {s.sections[i].name : i \in DOMAIN s.sections}

\* next((s for s in sections if s.name == section_name), None): the index of
\* the first section of that name, 0 for None.
FindSection(sections, section_name) ==
    LET idx == {i \in DOMAIN sections : sections[i].name = section_name}
    IN  IF idx = {} THEN 0 ELSE Min(idx)

\* _mark_reachable without its "already visited" return.
RECURSIVE MarkNoVisitedCheck(_, _, _, _)
MarkNoVisitedCheck(section_name, sections, st, depth) ==
    IF st.overflow THEN st
    ELSE IF depth > MaxDepth THEN [st EXCEPT !.overflow = TRUE]
    ELSE
        LET st1 == [st EXCEPT !.reachable = @ \cup {section_name},
                              !.expanded = Append(@, section_name)]
            k == FindSection(sections, section_name)
            RECURSIVE Loop(_, _)
            Loop(j, s) ==
                IF j > Len(sections[k].choices) THEN s
                ELSE Loop(j + 1, MarkNoVisitedCheck(sections[k].choices[j].target,
                                                    sections, s, depth + 1))
        IN  IF k = 0 THEN st1 ELSE Loop(1, st1)

\* _mark_reachable(section_name, sections, reachable).  st carries the set
\* `reachable`, the log of the identifiers added to it, and whether the call
\* nesting went past the interpreter's limit; depth is the nesting of this
\* call.
RECURSIVE _mark_reachable(_, _, _, _)
_mark_reachable(section_name, sections, st, depth) ==
    IF st.overflow THEN st
    ELSE IF depth > MaxDepth THEN [st EXCEPT !.overflow = TRUE]
    ELSE IF section_name \in st.reachable THEN st
    ELSE
        LET st1 == [st EXCEPT !.reachable = @ \cup {section_name},
                              !.expanded = Append(@, section_name)]
            k == FindSection(sections, section_name)
            RECURSIVE Loop(_, _)
            Loop(j, s) ==
                IF j > Len(sections[k].choices) THEN s
                ELSE Loop(j + 1, _mark_reachable(sections[k].choices[j].target,
                                                 sections, s, depth + 1))
        IN  IF k = 0 THEN st1 ELSE Loop(1, st1)

\* CheckStart comparing start_section with the first section only.
CheckStartFirstOnly(s) ==
    LET start == s.metadata.start_section
    IN  IF Truthy(start) /\ start # s.sections[1].name
        THEN <<StartMissing(start)>>
        ELSE <<>>

\* The start-section check of validate.
CheckStart(s) ==
    LET start == s.metadata.start_section
    IN  IF Truthy(start) /\ start \notin section_names(s)
        THEN <<StartMissing(start)>>
        ELSE <<>>

\* The traversal validate starts from the start section.
Traverse(s) ==
    LET st0 == [reachable |-> {}, expanded |-> <<>>, overflow |-> FALSE]
    IN  IF Truthy(s.metadata.start_section)
        THEN _mark_reachable(s.metadata.start_section, s.sections, st0, 1)
        ELSE st0

\* CheckChoice without its else branch: an existing target is not marked.
CheckChoiceNoMark(names, section, choice, acc) ==
    IF choice.target \notin names
    THEN [acc EXCEPT !.errors = Append(@, Dangling(section.name, choice.target))]
    ELSE acc

\* CheckChoice looking only at the choices of sections the traversal reached.
CheckChoiceReachedOnly(names, section, choice, acc) ==
    IF section.name \notin acc.reachable THEN acc
    ELSE IF choice.target \notin names
    THEN [acc EXCEPT !.errors = Append(@, Dangling(section.name, choice.target))]
    ELSE [acc EXCEPT !.reachable = @ \cup {choice.target}]

\* CheckChoice putting its diagnostic at the head of the list.
CheckChoicePrepend(names, section, choice, acc) ==
    IF choice.target \notin names
    THEN [acc EXCEPT !.errors = <<Dangling(section.name, choice.target)>> \o @]
    ELSE [acc EXCEPT !.reachable = @ \cup {choice.target}]

\* validate's body for one choice: a diagnostic, or the target marked.
CheckChoice(names, section, choice, acc) ==
    IF choice.target \notin names
    THEN [acc EXCEPT !.errors = Append(@, Dangling(section.name, choice.target))]
    ELSE [acc EXCEPT !.reachable = @ \cup {choice.target}]

\* validate's loop over every choice of every section, in order.
RECURSIVE CheckChoices(_, _, _, _)
CheckChoices(s, i, j, acc) ==
    IF i > Len(s.sections) THEN acc
    ELSE IF j > Len(s.sections[i].choices) THEN CheckChoices(s, i + 1, 1, acc)
    ELSE CheckChoices(s, i, j + 1,
                      CheckChoice(section_names(s), s.sections[i],
                                  s.sections[i].choices[j], acc))

\* IsOrphan without the exemption of the start section.
IsOrphanNoStartExemption(s, section, reach) ==
    section.name \notin reach

\* validate's test for one section in the orphan loop.
IsOrphan(s, section, reach) ==
    section.name # s.metadata.start_section /\ section.name \notin reach

\* validate's loop over the sections that reports the orphans, in order.
RECURSIVE CheckOrphans(_, _, _)
CheckOrphans(s, i, acc) ==
    IF i > Len(s.sections) THEN acc
    ELSE CheckOrphans(s, i + 1,
            IF IsOrphan(s, s.sections[i], acc.reachable)
            THEN [acc EXCEPT !.errors = Append(@, Orphaned(s.sections[i].name))]
            ELSE acc)

\* validate(story): the returned list, with the final `reachable`, the log of
\* the traversal and whether the traversal raised.
validate(s) ==
    LET t == Traverse(s)
        acc0 == [errors |-> CheckStart(s), reachable |-> t.reachable]
        acc1 == CheckChoices(s, 1, 1, acc0)
        acc2 == CheckOrphans(s, 1, acc1)
    IN  [errors |-> IF t.overflow THEN <<>> ELSE acc2.errors,
         reachable |-> acc2.reachable,
         expanded |-> t.expanded,
         raised |-> t.overflow]

----------------------------------------------------------------------------
(* The story models handed to validate.  As in every Story parse returns,  *)
(* the section identifiers are pairwise distinct, there is at least one    *)
(* section, and start_section is a string; it is the empty string only     *)
(* when that is the first section's identifier (parse defaults a missing   *)
(* or empty start to the first section).                                   *)

\* Identifiers sections may carry; the empty identifier is what a header
\* such as [[!!!]] normalises to.
SectionIds == {<<>>, <<"a">>, <<"b">>}

\* Identifiers choices and start_section may name: those and one that no
\* section carries.
TargetIds == SectionIds \cup {<<"x">>}

ChoiceOf(target) == [text |-> target, target |-> target]

\* The sequences of at most n choices.
ChoiceSeqs(n) == UNION {[1..k -> {ChoiceOf(t) : t \in TargetIds}] : k \in 0..n}

\* The orders in which distinct identifiers can appear as sections.
IdSeqs ==
    {q \in UNION {[1..k -> SectionIds] : k \in 1..Cardinality(SectionIds)} :
        \A i, j \in DOMAIN q : i # j => q[i] # q[j]}

SectionOf(name, choices) ==
    [name |-> name, content |-> <<>>, choices |-> choices, images |-> <<>>]

\* The section lists that carry the identifiers q[i], q[i+1], ... in this
\* order and hold at most budget choices together.
RECURSIVE SectionListsFrom(_, _, _)
SectionListsFrom(q, i, budget) ==
    IF i > Len(q) THEN {<<>>}
    ELSE UNION {
            {<<SectionOf(q[i], cs)>> \o rest :
                rest \in SectionListsFrom(q, i + 1, budget - Len(cs))}
            : cs \in ChoiceSeqs(budget)}

\* The section lists that hold at most budget choices.
SectionLists(budget) == UNION {SectionListsFrom(q, 1, budget) : q \in IdSeqs}

\* The story models that hold at most budget choices.
Stories(budget) ==
    {[metadata |-> [title |-> <<"t">>, author |-> None, start_section |-> st],
      sections |-> sl] :
        st \in TargetIds, sl \in SectionLists(budget)}

StoryOK(s) ==
    s.metadata.start_section = <<>> => s.sections[1].name = <<>>

----------------------------------------------------------------------------
(* The specification of validate: a story model is given, validate runs.   *)

NoStory == [metadata |-> [title |-> None, author |-> None, start_section |-> None],
            sections |-> <<>>]

Init ==
    /\ story \in Stories(MaxChoices)
    /\ StoryOK(story)
    /\ content = <<>>
    /\ outcome = [kind |-> "none"]
    /\ errors = <<>>
    /\ reachable = {}
    /\ expanded = <<>>
    /\ raised = FALSE
    /\ OthersIdle
    /\ pc = "ready"

Validate ==
    /\ pc = "ready"
    /\ LET r == validate(story)
       IN  /\ errors' = r.errors
           /\ reachable' = r.reachable
           /\ expanded' = r.expanded
           /\ raised' = r.raised
    /\ pc' = "done"
    /\ UNCHANGED <<content, outcome, story>>
    /\ UNCHANGED others

Next == Validate

Spec == Init /\ [][Next]_vars

----------------------------------------------------------------------------
(* Strings: Python's str operations and the regular expressions of the     *)
(* parser, on sequences of characters.                                     *)

\* What \s of the re module and str.strip() take for whitespace.
IsSpace(c) == c \in {" ", "\t", "\n", "\r", "\f"}

AllSpace(s, a, b) == \A i \in a..b : IsSpace(s[i])

Max(S) == CHOOSE m \in S : \A n \in S : m >= n

\* pat occurs in s at index i.
StartsWithAt(s, i, pat) ==
    /\ i >= 1
    /\ i + Len(pat) - 1 <= Len(s)
    /\ \A k \in 1..Len(pat) : s[i + k - 1] = pat[k]

\* str.strip()
strip(s) ==
    LET idx == {i \in 1..Len(s) : ~IsSpace(s[i])}
    IN  IF idx = {} THEN <<>> ELSE SubSeq(s, Min(idx), Max(idx))

\* str.split('\n')
RECURSIVE split_lines(_)
split_lines(s) ==
    LET nl == {i \in 1..Len(s) : s[i] = "\n"}
    IN  IF nl = {} THEN <<s>>
        ELSE <<SubSeq(s, 1, Min(nl) - 1)>> \o split_lines(SubSeq(s, Min(nl) + 1, Len(s)))

\* '\n'.join(lines[1:])
RECURSIVE join_lines(_, _)
join_lines(lines, i) ==
    IF i > Len(lines) THEN <<>>
    ELSE IF i = Len(lines) THEN lines[i]
    ELSE lines[i] \o <<"\n">> \o join_lines(lines, i + 1)

UpperCase == <<"A", "B", "C", "D", "E", "F", "G", "H", "I", "J", "K", "L", "M", "N", "O", "P", "Q", "R", "S", "T", "U", "V", "W", "X", "Y", "Z">>
LowerCase == <<"a", "b", "c", "d", "e", "f", "g", "h", "i", "j", "k", "l", "m", "n", "o", "p", "q", "r", "s", "t", "u", "v", "w", "x", "y", "z">>
Digits == <<"0", "1", "2", "3", "4", "5", "6", "7", "8", "9">>

\* str.lower() on one character.
Lower(c) ==
    IF \E k \in 1..26 : UpperCase[k] = c
    THEN LowerCase[CHOOSE k \in 1..26 : UpperCase[k] = c]
    ELSE c

\* The character class [a-z0-9-].
IsIdChar(c) ==
    \/ \E k \in 1..26 : LowerCase[k] = c
    \/ \E k \in 1..10 : Digits[k] = c
    \/ c = "-"

\* The character class [\s_].
IsGap(c) == IsSpace(c) \/ c = "_"

\* _normalize_section_name with one more step, str.replace('--', '-'): every
\* pair of hyphens, taken from the left, becomes one hyphen.
NormalizeAndHalveHyphens(name) ==
    LET lowered == [i \in 1..Len(name) |-> Lower(name[i])]
        RECURSIVE Collapse(_)
        Collapse(i) ==
            IF i > Len(lowered) THEN <<>>
            ELSE IF IsGap(lowered[i])
                 THEN (IF i > 1 /\ IsGap(lowered[i - 1]) THEN <<>> ELSE <<"-">>)
                      \o Collapse(i + 1)
                 ELSE <<lowered[i]>> \o Collapse(i + 1)
        kept == SelectSeq(Collapse(1), IsIdChar)
        RECURSIVE Halve(_)
        Halve(i) ==
            IF i > Len(kept) THEN <<>>
            ELSE IF StartsWithAt(kept, i, <<"-", "-">>) THEN <<"-">> \o Halve(i + 2)
            ELSE <<kept[i]>> \o Halve(i + 1)
    IN  Halve(1)

\* _normalize_section_name: lowercase, runs of [\s_] to one hyphen, then
\* everything outside [a-z0-9-] removed.
_normalize_section_name(name) ==
    LET lowered == [i \in 1..Len(name) |-> Lower(name[i])]
        RECURSIVE Collapse(_)
        Collapse(i) ==
            IF i > Len(lowered) THEN <<>>
            ELSE IF IsGap(lowered[i])
                 THEN (IF i > 1 /\ IsGap(lowered[i - 1]) THEN <<>> ELSE <<"-">>)
                      \o Collapse(i + 1)
                 ELSE <<lowered[i]>> \o Collapse(i + 1)
    IN  SelectSeq(Collapse(1), IsIdChar)

Hyphens == <<"-", "-", "-">>
NLHyphens == <<"\n", "-", "-", "-">>

\* ^---\s*\n : the indices at which the \n of the opening line can match.
OpenEnds(s) ==
    IF StartsWithAt(s, 1, Hyphens)
    THEN {p \in 4..Len(s) : s[p] = "\n" /\ AllSpace(s, 4, p - 1)}
    ELSE {}

\* The indices after p at which \n--- matches.
CloseStarts(s, p) == {q \in (p + 1)..Len(s) : StartsWithAt(s, q, NLHyphens)}

\* \n---\s*\n with its \n--- at q: the indices at which the last \n can match.
SepEnds(s, q) ==
    IF StartsWithAt(s, q, NLHyphens)
    THEN {r \in (q + 4)..Len(s) : s[r] = "\n" /\ AllSpace(s, q + 4, r - 1)}
    ELSE {}

\* re.match(r'^---\s*\n(.*?)\n---', content, re.DOTALL): group 1, or None.
\* \s* is greedy (the last opening \n that leaves a match), .*? is lazy (the
\* first \n--- after it).
metadata_match(s) ==
    LET P == {p \in OpenEnds(s) : CloseStarts(s, p) # {}}
    IN  IF P = {} THEN None
        ELSE SubSeq(s, Max(P) + 1, Min(CloseStarts(s, Max(P))) - 1)

\* re.sub(r'^---\s*\n.*?\n---\s*\n', '', content, count=1, flags=re.DOTALL)
content_without_metadata(s) ==
    LET P == {p \in OpenEnds(s) : \E q \in CloseStarts(s, p) : SepEnds(s, q) # {}}
    IN  IF P = {} THEN s
        ELSE LET q == Min({q \in CloseStarts(s, Max(P)) : SepEnds(s, q) # {}})
             IN  SubSeq(s, Max(SepEnds(s, q)) + 1, Len(s))

\* re_split cutting the text at its first separator only.
ReSplitAtFirstOnly(s) ==
    LET Q == {q \in 1..Len(s) : SepEnds(s, q) # {}}
    IN  IF Q = {} THEN <<s>>
        ELSE <<SubSeq(s, 1, Min(Q) - 1),
               SubSeq(s, Max(SepEnds(s, Min(Q))) + 1, Len(s))>>

\* re.split(r'\n---\s*\n', text)
RECURSIVE re_split(_)
re_split(s) ==
    LET Q == {q \in 1..Len(s) : SepEnds(s, q) # {}}
    IN  IF Q = {} THEN <<s>>
        ELSE <<SubSeq(s, 1, Min(Q) - 1)>>
             \o re_split(SubSeq(s, Max(SepEnds(s, Min(Q))) + 1, Len(s)))

\* The first index >= i of s holding a character of the set stop, or
\* Len(s) + 1.
FirstOf(s, i, stop) ==
    LET idx == {k \in i..Len(s) : s[k] \in stop}
    IN  IF idx = {} THEN Len(s) + 1 ELSE Min(idx)

\* \[\[([^\]|]+)(?:\|([^\]]+))?\]\] tried at index i: whether it matches,
\* groups 1 and 2 (None for an absent group 2) and the index of its last
\* character.
ChoiceMatchAt(s, i) ==
    LET e1 == FirstOf(s, i + 2, {"]", "|"})
        e2 == FirstOf(s, e1 + 1, {"]"})
        no == [ok |-> FALSE, g1 |-> <<>>, g2 |-> None, last |-> i]
    IN  IF ~StartsWithAt(s, i, <<"[", "[">>) \/ e1 = i + 2 \/ e1 > Len(s) THEN no
        ELSE IF s[e1] = "]"
        THEN IF StartsWithAt(s, e1, <<"]", "]">>)
             THEN [ok |-> TRUE, g1 |-> SubSeq(s, i + 2, e1 - 1), g2 |-> None,
                   last |-> e1 + 1]
             ELSE no
        ELSE IF e2 > e1 + 1 /\ StartsWithAt(s, e2, <<"]", "]">>)
             THEN [ok |-> TRUE, g1 |-> SubSeq(s, i + 2, e1 - 1),
                   g2 |-> SubSeq(s, e1 + 1, e2 - 1), last |-> e2 + 1]
             ELSE no

\* ChoiceFromMatch storing the explicit target as it is written.
ChoiceFromMatchRawTarget(m) ==
    LET text == strip(m.g1)
        target == IF m.g2 # None THEN strip(m.g2) ELSE None
    IN  [text |-> text,
         target |-> IF ~Truthy(target) THEN _normalize_section_name(text)
                    ELSE target]

\* The body of the loop of _extract_choices for one match.
ChoiceFromMatch(m) ==
    LET text == strip(m.g1)
        target == IF m.g2 # None THEN strip(m.g2) ELSE None
    IN  [text |-> text,
         target |-> IF ~Truthy(target) THEN _normalize_section_name(text)
                    ELSE _normalize_section_name(target)]

\* extract_choices_from stopping at the first match, as re.search would.
RECURSIVE ExtractFirstChoiceOnly(_, _)
ExtractFirstChoiceOnly(s, i) ==
    IF i > Len(s) THEN <<>>
    ELSE LET m == ChoiceMatchAt(s, i)
         IN  IF m.ok THEN <<ChoiceFromMatch(m)>>
             ELSE ExtractFirstChoiceOnly(s, i + 1)

\* _extract_choices: re.finditer from left to right, matches not overlapping.
RECURSIVE extract_choices_from(_, _)
extract_choices_from(s, i) ==
    IF i > Len(s) THEN <<>>
    ELSE LET m == ChoiceMatchAt(s, i)
         IN  IF m.ok THEN <<ChoiceFromMatch(m)>> \o extract_choices_from(s, m.last + 1)
             ELSE extract_choices_from(s, i + 1)

_extract_choices(s) == extract_choices_from(s, 1)

\* !\[([^\]]*)\]\(([^\)]+)\) tried at index i.
ImageMatchAt(s, i) ==
    LET e1 == FirstOf(s, i + 2, {"]"})
        e2 == FirstOf(s, e1 + 2, {")"})
        no == [ok |-> FALSE, g1 |-> <<>>, g2 |-> <<>>, last |-> i]
    IN  IF /\ StartsWithAt(s, i, <<"!", "[">>)
           /\ StartsWithAt(s, e1, <<"]", "(">>)
           /\ e2 > e1 + 2
           /\ e2 <= Len(s)
        THEN [ok |-> TRUE, g1 |-> SubSeq(s, i + 2, e1 - 1),
              g2 |-> SubSeq(s, e1 + 2, e2 - 1), last |-> e2]
        ELSE no

\* extract_images_from keeping the path as it is matched.
RECURSIVE ExtractImagesPathAsMatched(_, _)
ExtractImagesPathAsMatched(s, i) ==
    IF i > Len(s) THEN <<>>
    ELSE LET m == ImageMatchAt(s, i)
         IN  IF m.ok
             THEN <<[alt_text |-> strip(m.g1), path |-> m.g2]>>
                  \o ExtractImagesPathAsMatched(s, m.last + 1)
             ELSE ExtractImagesPathAsMatched(s, i + 1)

\* _extract_images
RECURSIVE extract_images_from(_, _)
extract_images_from(s, i) ==
    IF i > Len(s) THEN <<>>
    ELSE LET m == ImageMatchAt(s, i)
         IN  IF m.ok
             THEN <<[alt_text |-> strip(m.g1), path |-> strip(m.g2)]>>
                  \o extract_images_from(s, m.last + 1)
             ELSE extract_images_from(s, i + 1)

_extract_images(s) == extract_images_from(s, 1)

----------------------------------------------------------------------------
(* parse.  A call ends in a Story or in a raised ValidationError, of which *)
(* the model keeps which raise statement it was.                           *)

Returned(s) == [kind |-> "story", story |-> s]
ValidationError(which) == [kind |-> "error", error |-> "ValidationError", message |-> which]

\* An exception of another type that leaves parse: what Python raises for an
\* index out of range or a key that is missing.
Escapes(type) == [kind |-> "error", error |-> type, message |-> ""]

IsError(r) == r.kind = "error"

\* re.match(r'^\[\[([^\]]+)\]\]$', header_line): header_line holds no line
\* break, so $ is its end.
header_match(line) ==
    /\ Len(line) >= 5
    /\ StartsWithAt(line, 1, <<"[", "[">>)
    /\ StartsWithAt(line, Len(line) - 1, <<"]", "]">>)
    /\ \A i \in 3..(Len(line) - 2) : line[i] # "]"

\* s from index i on, without the image markup and the choice markup in it.
RECURSIVE WithoutMarkup(_, _)
WithoutMarkup(s, i) ==
    IF i > Len(s) THEN <<>>
    ELSE LET m == ImageMatchAt(s, i)
             c == ChoiceMatchAt(s, i)
         IN  IF m.ok THEN WithoutMarkup(s, m.last + 1)
             ELSE IF c.ok THEN WithoutMarkup(s, c.last + 1)
             ELSE <<s[i]>> \o WithoutMarkup(s, i + 1)

\* _parse_section storing the content with the extracted markup taken out.
ParseSectionDroppingMarkup(raw_section) ==
    LET lines == split_lines(raw_section)
        header_line == strip(lines[1])
        body == strip(join_lines(lines, 2))
    IN  IF ~header_match(header_line) THEN ValidationError("Invalid section header")
        ELSE [kind |-> "section",
              section |-> [name |-> _normalize_section_name(
                                        SubSeq(header_line, 3, Len(header_line) - 2)),
                           content |-> strip(WithoutMarkup(body, 1)),
                           choices |-> _extract_choices(body),
                           images |-> _extract_images(body)]]

\* _parse_section(raw_section): the Section, or the raise.
_parse_section(raw_section) ==
    LET lines == split_lines(raw_section)
        header_line == strip(lines[1])
        body == strip(join_lines(lines, 2))
    IN  IF ~header_match(header_line) THEN ValidationError("Invalid section header")
        ELSE [kind |-> "section",
              section |-> [name |-> _normalize_section_name(
                                        SubSeq(header_line, 3, Len(header_line) - 2)),
                           content |-> body,
                           choices |-> _extract_choices(body),
                           images |-> _extract_images(body)]]

\* IsDuplicate that never finds one.
IsDuplicateNever(name, seen_names) == FALSE

\* The duplicate test of _parse_sections.
IsDuplicate(name, seen_names) == name \in seen_names

\* The loop of _parse_sections from chunk i on: the list of sections, or the
\* first raise.
RECURSIVE parse_chunks(_, _, _, _)
parse_chunks(raw_sections, i, sections, seen_names) ==
    IF i > Len(raw_sections) THEN [kind |-> "sections", sections |-> sections]
    ELSE LET raw_section == strip(raw_sections[i])
             r == _parse_section(raw_section)
         IN  IF raw_section = <<>>
             THEN parse_chunks(raw_sections, i + 1, sections, seen_names)
             ELSE IF IsError(r) THEN r
             ELSE IF IsDuplicate(r.section.name, seen_names)
             THEN ValidationError("Duplicate section name")
             ELSE parse_chunks(raw_sections, i + 1, Append(sections, r.section),
                               seen_names \cup {r.section.name})

\* _parse_sections(content)
_parse_sections(s) == parse_chunks(re_split(content_without_metadata(s)), 1, <<>>, {})

\* The loop of _parse_metadata over the lines of the block: the dictionary,
\* a function from the keys to their last values.
RECURSIVE metadata_dict(_, _, _)
metadata_dict(lines, i, dict) ==
    IF i > Len(lines) THEN dict
    ELSE LET line == strip(lines[i])
             colon == FirstOf(line, 1, {":"})
             key == strip(SubSeq(line, 1, colon - 1))
             value == strip(SubSeq(line, colon + 1, Len(line)))
         IN  IF colon <= Len(line)
             THEN metadata_dict(lines, i + 1,
                      [k \in DOMAIN dict \cup {key} |-> IF k = key THEN value ELSE dict[k]])
             ELSE metadata_dict(lines, i + 1, dict)

\* DictGet looking the start value up under the key start_section.
DictGetStartSection(dict, key) ==
    LET k == IF key = <<"s", "t", "a", "r", "t">>
             THEN <<"s", "t", "a", "r", "t", "_", "s", "e", "c", "t", "i", "o", "n">>
             ELSE key
    IN  IF k \in DOMAIN dict THEN dict[k] ELSE None

\* metadata_dict.get(key)
DictGet(dict, key) == IF key \in DOMAIN dict THEN dict[key] ELSE None

\* TitleMissing looking only for a dictionary without any key.
TitleMissingIfNoKey(dict) == DOMAIN dict = {}

\* 'title' not in metadata_dict
TitleMissing(dict) == <<"t", "i", "t", "l", "e">> \notin DOMAIN dict

\* _parse_metadata(content): the StoryMetadata, or the raise.
_parse_metadata(s) ==
    LET metadata_text == metadata_match(s)
        dict == metadata_dict(split_lines(metadata_text), 1, <<>>)
    IN  IF metadata_text = None THEN ValidationError("No metadata block found")
        ELSE IF TitleMissing(dict) THEN ValidationError("Metadata must include title")
        ELSE IF <<"t", "i", "t", "l", "e">> \notin DOMAIN dict THEN Escapes("KeyError")
        ELSE [kind |-> "metadata",
              metadata |-> [title |-> DictGet(dict, <<"t", "i", "t", "l", "e">>),
                            author |-> DictGet(dict, <<"a", "u", "t", "h", "o", "r">>),
                            start_section |-> DictGet(dict, <<"s", "t", "a", "r", "t">>)]]

\* IsEmptyContent without the strip().
IsEmptyContentNoStrip(s) == s = <<>>

\* The emptiness test of parse.
IsEmptyContent(s) == s = <<>> \/ strip(s) = <<>>

\* NoSections that lets an empty list pass.
NoSectionsNever(sections) == FALSE

\* not sections
NoSections(sections) == sections = <<>>

\* DefaultStart taking the last section.
DefaultStartLast(sections) == sections[Len(sections)].name

\* sections[0].name
DefaultStart(sections) == sections[1].name

\* parse from the return of _parse_sections on: metadata is what
\* _parse_metadata returned, p the list of sections or the raise.
FinishParse(metadata, p) ==
    IF IsError(p) THEN p
    ELSE IF NoSections(p.sections) THEN ValidationError("No sections found")
    ELSE IF ~Truthy(metadata.start_section) /\ p.sections = <<>>
    THEN Escapes("IndexError")
    ELSE Returned(
            [metadata |->
                IF ~Truthy(metadata.start_section)
                THEN [metadata EXCEPT !.start_section = DefaultStart(p.sections)]
                ELSE metadata,
             sections |-> p.sections])

\* parse(content)
parse(s) ==
    IF IsEmptyContent(s) THEN ValidationError("Story content is empty")
    ELSE LET m == _parse_metadata(s)
         IN  IF IsError(m) THEN m
             ELSE FinishParse(m.metadata, _parse_sections(s))

----------------------------------------------------------------------------
(* The texts handed to parse: up to MaxFragments pieces of story text, one *)
(* after the other.                                                        *)

\* The most pieces a text is made of.
MaxFragments == 4

Fragments == {
    <<"-", "-", "-", "\n">>,                      \* a three-hyphen line
    <<"-", "-", "-", " ", "\n", "\n">>,                   \* one with trailing blanks, and an empty line
    <<"t", "i", "t", "l", "e", ":", " ", "T", "\n">>,                 \* the title field
    <<"a", "u", "t", "h", "o", "r", ":", " ", "m", "e", "\n">>,               \* another field
    <<"b", "y", " ", "m", "e", "\n">>,                                   \* a line of prose
    <<"[", "[", "M", "y", " ", "R", "o", "o", "m", "]", "]", "\n">>,              \* a header, or a choice in a body
    <<"[", "[", "m", "y", "_", "r", "o", "o", "m", "]", "]", "\n">>,              \* the same identifier, written differently
    <<" ", "\n">>,                        \* whitespace
    <<"-", "-", "-", "\n", "t", "i", "t", "l", "e", ":", " ", "T", "\n", "-", "-", "-", "\n">>        \* a whole metadata block
}

\* The pieces of fs one after the other.
RECURSIVE Concat(_)
Concat(fs) == IF fs = <<>> THEN <<>> ELSE Head(fs) \o Concat(Tail(fs))

----------------------------------------------------------------------------
(* The specification of parse: a text is given, parse runs on it, and the  *)
(* caller hands a returned Story to validate.                              *)

InitParse ==
    /\ \E k \in 0..MaxFragments : \E fs \in [1..k -> Fragments] : content = Concat(fs)
    /\ outcome = [kind |-> "none"]
    /\ story = NoStory
    /\ errors = <<>>
    /\ reachable = {}
    /\ expanded = <<>>
    /\ raised = FALSE
    /\ OthersIdle
    /\ pc = "ready"

Parse ==
    /\ pc = "ready"
    /\ outcome' = parse(content)
    /\ pc' = "parsed"
    /\ UNCHANGED <<content, story, errors, reachable, expanded, raised>>
    /\ UNCHANGED others

ValidateParsed ==
    /\ pc = "parsed"
    /\ outcome.kind = "story"
    /\ story' = outcome.story
    /\ LET r == validate(outcome.story)
       IN  /\ errors' = r.errors
           /\ reachable' = r.reachable
           /\ expanded' = r.expanded
           /\ raised' = r.raised
    /\ pc' = "done"
    /\ UNCHANGED <<content, outcome>>
    /\ UNCHANGED others

NextParse == Parse \/ ValidateParsed

SpecParse == InitParse /\ [][NextParse]_vars

----------------------------------------------------------------------------
(* What the claims about validate speak of, defined on the story alone.    *)

\* How often diagnostic d occurs in the list errs.
Count(errs, d) == Cardinality({k \in DOMAIN errs : errs[k] = d})

\* The targets of the choices of the sections named in S.
TargetsOf(s, S) ==
    UNION {{s.sections[i].choices[j].target : j \in DOMAIN s.sections[i].choices} :
              i \in {i \in DOMAIN s.sections : s.sections[i].name \in S}}

\* The identifiers reached from the start section by following choices.
RECURSIVE Closure(_, _, _)
Closure(s, S, n) == IF n = 0 THEN S ELSE Closure(s, S \cup TargetsOf(s, S), n - 1)
ReachedFromStart(s) == Closure(s, {s.metadata.start_section}, Cardinality(TargetIds))

\* Section i is the target of a choice of section r.
Targets(s, r, i) ==
    \E j \in DOMAIN s.sections[r].choices :
        s.sections[r].choices[j].target = s.sections[i].name

\* A story whose choices form a cycle through two sections or a self-loop.
HasCycle(s) ==
    \E i, r \in DOMAIN s.sections : Targets(s, r, i) /\ Targets(s, i, r)

OrphanDiagnostics == {k \in DOMAIN errors : errors[k].kind = "orphan"}
DanglingDiagnostics == {k \in DOMAIN errors : errors[k].kind = "dangling"}
StartDiagnostics == {k \in DOMAIN errors : errors[k].kind = "start"}

----------------------------------------------------------------------------
(* C1.  As claimed: validate reports a section as orphaned exactly once    *)
(* when it is not the start section, is not reached from the start section *)
(* by following choices, and is not the target of a choice of another      *)
(* section; it reports it not at all otherwise, and reports nothing else   *)
(* as orphaned.                                                            *)
C1_OrphanIffNoOtherSectionTargetsIt ==
    pc = "done" =>
        /\ \A i \in DOMAIN story.sections :
              Count(errors, Orphaned(story.sections[i].name)) =
                  IF /\ story.sections[i].name # story.metadata.start_section
                     /\ story.sections[i].name \notin ReachedFromStart(story)
                     /\ ~\E r \in DOMAIN story.sections : r # i /\ Targets(story, r, i)
                  THEN 1 ELSE 0
        /\ \A k \in OrphanDiagnostics : errors[k].name \in section_names(story)

(* C1, amended.  validate reports a section as orphaned exactly once when  *)
(* it is not the start section, is not reached from the start section by   *)
(* following choices, and is not the target of a choice of any section,    *)
(* itself included; it reports it not at all otherwise, and reports        *)
(* nothing else as orphaned.                                               *)
C1_OrphanIffNoSectionTargetsIt ==
    pc = "done" =>
        /\ \A i \in DOMAIN story.sections :
              Count(errors, Orphaned(story.sections[i].name)) =
                  IF /\ story.sections[i].name # story.metadata.start_section
                     /\ story.sections[i].name \notin ReachedFromStart(story)
                     /\ ~\E r \in DOMAIN story.sections : Targets(story, r, i)
                  THEN 1 ELSE 0
        /\ \A k \in OrphanDiagnostics : errors[k].name \in section_names(story)

\* validate has reported one section as orphaned and has not reported
\* another one, which is not the start section and which only an unreached
\* section points at.
C1_Witness ==
    /\ pc = "done"
    /\ OrphanDiagnostics # {}
    /\ \E i, r \in DOMAIN story.sections :
          /\ r # i
          /\ Targets(story, r, i)
          /\ story.sections[i].name # story.metadata.start_section
          /\ story.sections[r].name \notin ReachedFromStart(story)
          /\ story.sections[i].name \notin ReachedFromStart(story)
          /\ Orphaned(story.sections[i].name) \notin {errors[k] : k \in DOMAIN errors}

C3_OneDanglingPerMissingTarget ==
    pc = "done" =>
        /\ \A i \in DOMAIN story.sections : \A t \in TargetIds :
              Count(errors, Dangling(story.sections[i].name, t)) =
                  IF t \in section_names(story) THEN 0
                  ELSE Cardinality({j \in DOMAIN story.sections[i].choices :
                                       story.sections[i].choices[j].target = t})
        /\ \A k \in DanglingDiagnostics :
              /\ errors[k].section \in section_names(story)
              /\ errors[k].target \in TargetIds

\* validate has reported a dangling choice of a section that is not reached
\* from the start section, twice because the section holds it twice.
C3_Witness ==
    /\ pc = "done"
    /\ \E i \in DOMAIN story.sections : \E t \in TargetIds :
          /\ story.sections[i].name \notin ReachedFromStart(story)
          /\ Count(errors, Dangling(story.sections[i].name, t)) = 2

(* C4.  validate reports the start section as missing exactly once when    *)
(* start_section is no section's identifier, and not at all when it is.    *)
C4_OneMissingStart ==
    pc = "done" =>
        /\ Cardinality(StartDiagnostics) =
              IF story.metadata.start_section \in section_names(story) THEN 0 ELSE 1
        /\ \A k \in StartDiagnostics : errors[k] = StartMissing(story.metadata.start_section)

\* validate has reported a missing start section on a story that has
\* sections.
C4_Witness ==
    /\ pc = "done"
    /\ story.metadata.start_section \notin section_names(story)
    /\ StartDiagnostics # {}
    /\ Len(story.sections) >= 2

\* The start section exists, every choice target exists, and every section
\* is reached from the start section.
FullyValid(s) ==
    /\ s.metadata.start_section \in section_names(s)
    /\ TargetsOf(s, section_names(s)) \subseteq section_names(s)
    /\ section_names(s) \subseteq ReachedFromStart(s)

(* C5.  On a story whose start section exists, whose choice targets all    *)
(* exist and whose sections are all reached from the start section,        *)
(* validate returns the empty list, cycles and self-references included.   *)
C5_ValidStoryHasNoDiagnostics ==
    (pc = "done" /\ FullyValid(story)) => (errors = <<>> /\ ~raised)

\* validate has returned on a fully valid story of several sections whose
\* choices form a cycle.
C5_Witness ==
    /\ pc = "done"
    /\ FullyValid(story)
    /\ Len(story.sections) >= 2
    /\ HasCycle(story)
    /\ errors = <<>>

(* C6.  A section that some section's choice targets is never reported as  *)
(* orphaned, also when that section is itself unreached.                   *)
C6_TargetedSectionNotOrphaned ==
    pc = "done" =>
        \A i, r \in DOMAIN story.sections :
            Targets(story, r, i) =>
                Count(errors, Orphaned(story.sections[i].name)) = 0

\* validate has reported section r as orphaned and not section i, which
\* only r points at.
C6_Witness ==
    /\ pc = "done"
    /\ \E i, r \in DOMAIN story.sections :
          /\ i # r
          /\ Targets(story, r, i)
          /\ story.sections[i].name \notin ReachedFromStart(story)
          /\ Count(errors, Orphaned(story.sections[r].name)) = 1
          /\ Count(errors, Orphaned(story.sections[i].name)) = 0

----------------------------------------------------------------------------
(* The texts of the specification of the metadata block: the same pieces   *)
(* without the ready-made block, a line of four hyphens among them, and    *)
(* more of them in a row.                                                  *)

\* The most pieces such a text is made of.
MaxMetaFragments == 6

MetaFragments == {
    <<"-", "-", "-", "\n">>,                      \* a three-hyphen line
    <<"\n">>,                         \* an empty line
    <<"t", "i", "t", "l", "e", ":", " ", "T", "\n">>,                 \* the title field
    <<"-", "-", "-", "-", "\n">>,                     \* a line of four hyphens
    <<"[", "[", "a", "]", "]", "\n">>                     \* a header
}

InitMeta ==
    /\ \E k \in 0..MaxMetaFragments : \E fs \in [1..k -> MetaFragments] :
          content = Concat(fs)
    /\ outcome = [kind |-> "none"]
    /\ story = NoStory
    /\ errors = <<>>
    /\ reachable = {}
    /\ expanded = <<>>
    /\ raised = FALSE
    /\ OthersIdle
    /\ pc = "ready"

SpecMeta == InitMeta /\ [][NextParse]_vars

----------------------------------------------------------------------------
(* What the claims about parse speak of, defined on the text.              *)

\* A line of three hyphens, blanks after them allowed.
IsDelimLine(l) == StartsWithAt(l, 1, Hyphens) /\ AllSpace(l, 4, Len(l))

\* A key: value line.
IsFieldLine(l) == \E i \in 1..Len(l) : l[i] = ":"

\* The text begins with a metadata block: an opening three-hyphen line and,
\* after at least one key: value line, a closing three-hyphen line.  Lines
\* of other kinds between the two are let pass.
BeginsWithMetadataBlock(c) ==
    LET L == split_lines(c)
    IN  /\ IsDelimLine(L[1])
        /\ \E j \in 3..Len(L) :
              /\ IsDelimLine(L[j])
              /\ \E i \in 2..(j - 1) : IsFieldLine(L[i])

\* The block holds a line whose key, the text before its first colon, is
\* title.
HasTitleField(block) ==
    LET L == split_lines(block)
    IN  \E i \in 1..Len(L) :
            LET l == strip(L[i])
                c == FirstOf(l, 1, {":"})
            IN  c <= Len(l) /\ strip(SubSeq(l, 1, c - 1)) = <<"t", "i", "t", "l", "e">>

\* The headers of the chunks the text is split into after its metadata
\* block, as written between the brackets; None for a chunk that is empty
\* or has no header.
ChunkHeaders(c) ==
    LET raw == re_split(content_without_metadata(c))
        HeaderLine(i) == strip(split_lines(strip(raw[i]))[1])
    IN  [i \in 1..Len(raw) |->
            IF header_match(HeaderLine(i)) THEN SubSeq(HeaderLine(i), 3, Len(HeaderLine(i)) - 2)
            ELSE None]

\* Two chunks have headers, written differently or not, that normalise to
\* the same identifier.
HeadersCollide(c) ==
    LET H == ChunkHeaders(c)
    IN  \E i, j \in DOMAIN H :
            /\ i < j
            /\ H[i] # None
            /\ H[j] # None
            /\ _normalize_section_name(H[i]) = _normalize_section_name(H[j])

----------------------------------------------------------------------------
(* C7.  parse raises on a text in which two section headers normalise to   *)
(* the same identifier, however they are written, and the sections of a    *)
(* Story that parse returns have pairwise distinct identifiers.            *)
C7_DuplicateHeadersRaise ==
    pc # "ready" =>
        /\ HeadersCollide(content) => IsError(outcome)
        /\ outcome.kind = "story" =>
              \A i, j \in DOMAIN outcome.story.sections :
                  i # j => outcome.story.sections[i].name # outcome.story.sections[j].name

\* parse has raised for a duplicate on a text with a metadata block and two
\* headers that are written differently.
C7_Witness ==
    /\ pc = "parsed"
    /\ outcome = ValidationError("Duplicate section name")
    /\ \E i, j \in DOMAIN ChunkHeaders(content) :
          /\ i < j
          /\ ChunkHeaders(content)[i] # None
          /\ ChunkHeaders(content)[j] # None
          /\ ChunkHeaders(content)[i] # ChunkHeaders(content)[j]
          /\ _normalize_section_name(ChunkHeaders(content)[i])
                 = _normalize_section_name(ChunkHeaders(content)[j])

(* C8.  parse raises, with the message of the empty story, on the empty    *)
(* text and on every text of whitespace only, and returns no Story.        *)
C8_EmptyTextRaises ==
    (pc # "ready" /\ AllSpace(content, 1, Len(content))) =>
        outcome = ValidationError("Story content is empty")

\* parse has raised on a text that is not empty and holds only whitespace.
C8_Witness ==
    /\ pc = "parsed"
    /\ Len(content) >= 2
    /\ AllSpace(content, 1, Len(content))
    /\ IsError(outcome)

(* C9.  parse raises on every text that does not begin with a metadata     *)
(* block: an opening three-hyphen line, one or more key: value lines, and  *)
(* a closing three-hyphen line.                                            *)
C9_NoMetadataBlockRaises ==
    (pc # "ready" /\ ~BeginsWithMetadataBlock(content)) => IsError(outcome)

(* C10.  parse raises, with the message of the missing title, whenever the *)
(* metadata block it finds holds no title field.                           *)
C10_NoTitleRaises ==
    (/\ pc # "ready"
     /\ ~IsEmptyContent(content)
     /\ metadata_match(content) # None
     /\ ~HasTitleField(metadata_match(content)))
        => outcome = ValidationError("Metadata must include title")

\* parse has raised on a text whose metadata block holds a field, but not
\* the title.
C10_Witness ==
    /\ pc = "parsed"
    /\ metadata_match(content) # None
    /\ \E i \in DOMAIN split_lines(metadata_match(content)) :
          IsFieldLine(split_lines(metadata_match(content))[i])
    /\ ~HasTitleField(metadata_match(content))
    /\ IsError(outcome)

----------------------------------------------------------------------------
(* The texts of the specification of the title and the start section: an   *)
(* opening three-hyphen line with or without a title line, then up to      *)
(* MaxStartFragments lines: start fields, three-hyphen lines and headers.  *)

\* The most lines that follow the opening.
MaxStartFragments == 5

Openings == {
    <<"-", "-", "-", "\n", "t", "i", "t", "l", "e", ":", " ", "T", "\n">>,      \* a title
    <<"-", "-", "-", "\n", "t", "i", "t", "l", "e", ":", "\n">>,        \* a title key without a value
    <<"-", "-", "-", "\n">>                 \* no title
}

StartFragments == {
    <<"s", "t", "a", "r", "t", ":", " ", "M", "y", " ", "R", "o", "o", "m", "\n">>,     \* a start value written as its header is
    <<"s", "t", "a", "r", "t", ":", " ", "x", "\n">>,           \* a start value in normal form
    <<"-", "-", "-", "\n">>,                \* a three-hyphen line
    <<"[", "[", "M", "y", " ", "R", "o", "o", "m", "]", "]", "\n">>,        \* a header, or a choice in a body
    <<"[", "[", "x", "]", "]", "\n">>               \* another
}

InitStart ==
    /\ \E o \in Openings : \E k \in 0..MaxStartFragments :
          \E fs \in [1..k -> StartFragments] : content = o \o Concat(fs)
    /\ outcome = [kind |-> "none"]
    /\ story = NoStory
    /\ errors = <<>>
    /\ reachable = {}
    /\ expanded = <<>>
    /\ raised = FALSE
    /\ OthersIdle
    /\ pc = "ready"

SpecStart == InitStart /\ [][NextParse]_vars

----------------------------------------------------------------------------
(* C11.  The title of every Story that parse returns is a string that is   *)
(* not empty.                                                              *)
C11_TitleNotEmpty ==
    (pc # "ready" /\ outcome.kind = "story") =>
        /\ outcome.story.metadata.title # None
        /\ outcome.story.metadata.title # <<>>

----------------------------------------------------------------------------
(* The texts of the specification of the section headers: a metadata block *)
(* with a title, then up to MaxHeaderFragments lines, well-formed headers  *)
(* and others.                                                             *)

\* The most lines that follow the metadata block.
MaxHeaderFragments == 4

HeaderFragments == {
    <<"[", "[", "a", "]", "]", "\n">>,          \* a header
    <<"[", "[", "a", "|", "b", "]", "]", "\n">>,        \* brackets around a pipe
    <<"[", "[", "[", "b", "]", "]", "\n">>,         \* a bracket within the brackets
    <<"[", "a", "]", "\n">>,            \* single brackets
    <<"[", "[", "a", "]", "]", "x", "\n">>,         \* text after the brackets
    <<"-", "-", "-", "\n">>,            \* a three-hyphen line
    <<"g", "o", "\n">>              \* a line of prose
}

InitHeader ==
    /\ \E k \in 0..MaxHeaderFragments : \E fs \in [1..k -> HeaderFragments] :
          content = <<"-", "-", "-", "\n", "t", "i", "t", "l", "e", ":", " ", "T", "\n", "-", "-", "-", "\n">> \o Concat(fs)
    /\ outcome = [kind |-> "none"]
    /\ story = NoStory
    /\ errors = <<>>
    /\ reachable = {}
    /\ expanded = <<>>
    /\ raised = FALSE
    /\ OthersIdle
    /\ pc = "ready"

SpecHeader == InitHeader /\ [][NextParse]_vars

\* The first lines, without the blanks around them, of the chunks the text
\* is split into after its metadata block; <<>> for an empty chunk.
ChunkFirstLines(c) ==
    LET raw == re_split(content_without_metadata(c))
    IN  [i \in 1..Len(raw) |-> strip(split_lines(strip(raw[i]))[1])]

\* The line is [[identifier]]: double square brackets around one character
\* or more, none of them a pipe or a bracket.
IsPlainHeader(l) ==
    /\ Len(l) >= 5
    /\ StartsWithAt(l, 1, <<"[", "[">>)
    /\ StartsWithAt(l, Len(l) - 1, <<"]", "]">>)
    /\ \A i \in 3..(Len(l) - 2) : l[i] \notin {"[", "]", "|"}

----------------------------------------------------------------------------
(* C12.  parse raises on every text with a chunk that is not empty and     *)
(* whose first line is not a [[identifier]] header free of pipes and of    *)
(* nested brackets.                                                        *)
C12_MalformedHeaderRaises ==
    (/\ pc # "ready"
     /\ \E i \in DOMAIN ChunkFirstLines(content) :
           /\ ChunkFirstLines(content)[i] # <<>>
           /\ ~IsPlainHeader(ChunkFirstLines(content)[i]))
        => IsError(outcome)

----------------------------------------------------------------------------
(* C13.  Whatever the text, parse ends in a Story or in a ValidationError: *)
(* no exception of another type leaves it, and a Story it returns has at   *)
(* least one section and a title.                                          *)
C13_StoryOrValidationError ==
    pc # "ready" =>
        \/ /\ outcome.kind = "error"
           /\ outcome.error = "ValidationError"
        \/ /\ outcome.kind = "story"
           /\ outcome.story.sections # <<>>
           /\ outcome.story.metadata.title # None
           /\ outcome.story.metadata.start_section # None

\* parse has raised for a text with a metadata block and a title, and no
\* section to make a Story of.
C13_Witness ==
    /\ pc = "parsed"
    /\ outcome = ValidationError("No sections found")
    /\ HasTitleField(metadata_match(content))

----------------------------------------------------------------------------
\* The block holds a line whose key, the text before its first colon, is
\* start.
HasStartField(block) ==
    LET L == split_lines(block)
    IN  \E i \in 1..Len(L) :
            LET l == strip(L[i])
                c == FirstOf(l, 1, {":"})
            IN  c <= Len(l) /\ strip(SubSeq(l, 1, c - 1)) = <<"s", "t", "a", "r", "t">>

\* The header of the first chunk of the text that has one, as written.
FirstHeader(c) ==
    LET H == ChunkHeaders(c)
    IN  H[Min({i \in DOMAIN H : H[i] # None})]

(* C14.  When the metadata block holds no start key, the start section of  *)
(* the Story that parse returns is the normalised identifier of the first  *)
(* section of the text.                                                    *)
C14_DefaultStartIsFirstSection ==
    (/\ pc # "ready"
     /\ outcome.kind = "story"
     /\ ~HasStartField(metadata_match(content)))
        => outcome.story.metadata.start_section
               = _normalize_section_name(FirstHeader(content))

\* parse has returned a Story of two sections or more for a text without a
\* start key, the first header of which is not written in normal form.
C14_Witness ==
    /\ pc = "parsed"
    /\ outcome.kind = "story"
    /\ ~HasStartField(metadata_match(content))
    /\ Len(outcome.story.sections) >= 2
    /\ FirstHeader(content) # _normalize_section_name(FirstHeader(content))
    /\ outcome.story.metadata.start_section = outcome.story.sections[1].name

----------------------------------------------------------------------------
\* The value of the last start field of the block, without the blanks
\* around it.
StartValue(block) ==
    LET L == split_lines(block)
        IsStart(i) ==
            LET l == strip(L[i])
                c == FirstOf(l, 1, {":"})
            IN  c <= Len(l) /\ strip(SubSeq(l, 1, c - 1)) = <<"s", "t", "a", "r", "t">>
        last == strip(L[Max({i \in DOMAIN L : IsStart(i)})])
    IN  strip(SubSeq(last, FirstOf(last, 1, {":"}) + 1, Len(last)))

\* Start aside, the text is well formed: a metadata block with a title, and
\* chunks of which one at least is not empty, each with a header, no two
\* headers normalising to the same identifier.
WellFormedButForStart(c) ==
    /\ ~IsEmptyContent(c)
    /\ metadata_match(c) # None
    /\ HasTitleField(metadata_match(c))
    /\ LET F == ChunkFirstLines(c)
           H == ChunkHeaders(c)
       IN  /\ \E i \in DOMAIN F : F[i] # <<>>
           /\ \A i \in DOMAIN F : F[i] # <<>> => H[i] # None
    /\ ~HeadersCollide(c)

(* C15.  parse does not look for the start section among the sections: it  *)
(* returns a Story for every text that is well formed otherwise, with the  *)
(* start value as authored; when no section has that identifier, validate  *)
(* reports it, once.                                                       *)
C15_MissingStartLeftToValidate ==
    /\ (pc # "ready" /\ WellFormedButForStart(content)) => outcome.kind = "story"
    /\ (/\ pc # "ready"
        /\ outcome.kind = "story"
        /\ HasStartField(metadata_match(content))
        /\ StartValue(metadata_match(content)) # <<>>)
           => outcome.story.metadata.start_section = StartValue(metadata_match(content))
    /\ (pc = "done" /\ story.metadata.start_section \notin section_names(story))
           => Count(errors, StartMissing(story.metadata.start_section)) = 1

\* parse has returned a Story whose authored start value names no section,
\* and validate has reported it.
C15_Witness ==
    /\ pc = "done"
    /\ HasStartField(metadata_match(content))
    /\ story.metadata.start_section = StartValue(metadata_match(content))
    /\ story.metadata.start_section \notin section_names(story)
    /\ Count(errors, StartMissing(story.metadata.start_section)) = 1

----------------------------------------------------------------------------
(* C16.  The authored start value is normalised as the headers are: when   *)
(* its normal form is the identifier of a section, that is the start       *)
(* section of the Story, and validate reports no missing start section.    *)
C16_StartValueNormalised ==
    (/\ pc = "done"
     /\ HasStartField(metadata_match(content))
     /\ StartValue(metadata_match(content)) # <<>>
     /\ _normalize_section_name(StartValue(metadata_match(content)))
            \in section_names(story))
        => /\ story.metadata.start_section
                  = _normalize_section_name(StartValue(metadata_match(content)))
           /\ StartDiagnostics = {}

----------------------------------------------------------------------------
(* The texts of the specification of the choices: a metadata block, the    *)
(* header of one section, and a body of up to MaxChoiceFragments pieces of *)
(* choice markup.                                                          *)

\* The most pieces the body is made of.
MaxChoiceFragments == 5

ChoiceFragments == {
    <<"[", "[", "A", " ", "b">>,            \* brackets open, a display text
    <<"[", "[", " ">>,              \* brackets open, a blank display text
    <<"|", "c", "_", "D">>,             \* a pipe and an explicit target
    <<"|", " ">>,               \* a pipe and a blank
    <<"]", "]">>,               \* brackets close
    <<"]", "]", "\n", "[", "[", "e">>           \* brackets close, and open on the next line
}

InitChoice ==
    /\ \E k \in 0..MaxChoiceFragments : \E fs \in [1..k -> ChoiceFragments] :
          content = <<"-", "-", "-", "\n", "t", "i", "t", "l", "e", ":", " ", "T", "\n", "-", "-", "-", "\n", "[", "[", "s", "]", "]", "\n">> \o Concat(fs)
    /\ outcome = [kind |-> "none"]
    /\ story = NoStory
    /\ errors = <<>>
    /\ reachable = {}
    /\ expanded = <<>>
    /\ raised = FALSE
    /\ OthersIdle
    /\ pc = "ready"

SpecChoice == InitChoice /\ [][NextParse]_vars

\* s[i..j] is choice markup: [[display text]] or [[display text|explicit
\* target]], the display text without bracket close or pipe, the target
\* without bracket close, neither of them empty.
IsChoiceMarkup(s, i, j) ==
    /\ i >= 1
    /\ j <= Len(s)
    /\ j - i >= 4
    /\ StartsWithAt(s, i, <<"[", "[">>)
    /\ StartsWithAt(s, j - 1, <<"]", "]">>)
    /\ \A k \in (i + 2)..(j - 2) : s[k] # "]"
    /\ s[i + 2] # "|"
    /\ s[j - 2] # "|" \/ \E k \in (i + 3)..(j - 3) : s[k] = "|"

\* The choice markup occurrences of s, each the widest one that ends where
\* it ends.
Occurrences(s) ==
    LET opens == {i \in 1..Len(s) : StartsWithAt(s, i, <<"[", "[">>)}
        closes == {j \in 1..Len(s) : StartsWithAt(s, j - 1, <<"]", "]">>)}
    IN  {o \in opens \X closes :
            /\ IsChoiceMarkup(s, o[1], o[2])
            /\ \A i \in opens : i < o[1] => ~IsChoiceMarkup(s, i, o[2])}

\* The place of occurrence o among the occurrences occ of a text, from the
\* left and from the top.
Rank(occ, o) == 1 + Cardinality({p \in occ : p[1] < o[1]})

\* The display text of occurrence o as written, and its explicit target, or
\* None when it has no pipe.
DisplayText(s, o) == SubSeq(s, o[1] + 2, FirstOf(s, o[1] + 2, {"|", "]"}) - 1)
ExplicitTarget(s, o) ==
    LET bar == FirstOf(s, o[1] + 2, {"|", "]"})
    IN  IF s[bar] = "|" THEN SubSeq(s, bar + 1, o[2] - 2) ELSE None

\* The sections of the Story that parse has returned.
ParsedSections == IF outcome.kind = "story" THEN outcome.story.sections ELSE <<>>

----------------------------------------------------------------------------
(* C17 as stated.  The target of a Choice is the normalised explicit       *)
(* target, trimmed, whenever one follows the pipe, and the normalised      *)
(* trimmed display text otherwise.                                         *)
C17_TargetFromExplicitTargetElseText ==
    \A n \in DOMAIN ParsedSections :
        LET sec == ParsedSections[n]
            occ == Occurrences(sec.content)
        IN  \A o \in occ :
                Rank(occ, o) <= Len(sec.choices) =>
                    sec.choices[Rank(occ, o)].target =
                        IF ExplicitTarget(sec.content, o) # None
                        THEN _normalize_section_name(strip(ExplicitTarget(sec.content, o)))
                        ELSE _normalize_section_name(strip(DisplayText(sec.content, o)))

(* C17.  The target of a Choice is the normalised explicit target,         *)
(* trimmed, whenever the text after the pipe is not blank, and the         *)
(* normalised trimmed display text otherwise: without a pipe, or with only *)
(* whitespace after it.                                                    *)
C17_TargetFromNonBlankExplicitTargetElseText ==
    \A n \in DOMAIN ParsedSections :
        LET sec == ParsedSections[n]
            occ == Occurrences(sec.content)
        IN  \A o \in occ :
                Rank(occ, o) <= Len(sec.choices) =>
                    sec.choices[Rank(occ, o)].target =
                        IF /\ ExplicitTarget(sec.content, o) # None
                           /\ strip(ExplicitTarget(sec.content, o)) # <<>>
                        THEN _normalize_section_name(strip(ExplicitTarget(sec.content, o)))
                        ELSE _normalize_section_name(strip(DisplayText(sec.content, o)))

\* parse has returned a section with a choice that has an explicit target
\* not in normal form and one that has a blank after the pipe.
C17_Witness ==
    \E n \in DOMAIN ParsedSections :
        LET sec == ParsedSections[n]
            occ == Occurrences(sec.content)
        IN  /\ Len(sec.choices) = Cardinality(occ)
            /\ \E o \in occ :
                  /\ ExplicitTarget(sec.content, o) # None
                  /\ strip(ExplicitTarget(sec.content, o)) # <<>>
                  /\ sec.choices[Rank(occ, o)].target
                         # strip(ExplicitTarget(sec.content, o))
            /\ \E o \in occ :
                  /\ ExplicitTarget(sec.content, o) # None
                  /\ strip(ExplicitTarget(sec.content, o)) = <<>>
                  /\ sec.choices[Rank(occ, o)].target
                         = _normalize_section_name(strip(DisplayText(sec.content, o)))

----------------------------------------------------------------------------
(* C18.  The Choice list of a parsed section has one Choice for every      *)
(* choice markup occurrence of its content, in the order of the            *)
(* occurrences from the left and from the top; it is empty for a content   *)
(* without choice markup, which parse accepts as any other.                *)
C18_OneChoicePerOccurrenceInOrder ==
    pc = "parsed" =>
        /\ WellFormedButForStart(content) => outcome.kind = "story"
        /\ \A n \in DOMAIN ParsedSections :
              LET sec == ParsedSections[n]
                  occ == Occurrences(sec.content)
              IN  /\ Len(sec.choices) = Cardinality(occ)
                  /\ \A o \in occ :
                        sec.choices[Rank(occ, o)].text = strip(DisplayText(sec.content, o))

\* parse has returned a section with two choices of different texts, the
\* second on a later line than the first.
C18_Witness ==
    /\ pc = "parsed"
    /\ \E n \in DOMAIN ParsedSections :
          LET sec == ParsedSections[n]
              occ == Occurrences(sec.content)
          IN  /\ Len(sec.choices) >= 2
              /\ sec.choices[1].text # sec.choices[2].text
              /\ \E o, p \in occ :
                    /\ Rank(occ, o) = 1
                    /\ Rank(occ, p) = 2
                    /\ \E k \in o[2]..p[1] : sec.content[k] = "\n"

----------------------------------------------------------------------------
(* The specification of the normalisation: a name of up to MaxNameLen      *)
(* characters is normalised, and the result is normalised once more.       *)

\* The most characters of a name.
MaxNameLen == 4

\* A capital, a small letter, a digit, the two gap characters, the hyphen
\* and a character that normalisation removes.
NameChars == {"A", "b", "1", " ", "_", "-", "!"}

InitNormalize ==
    /\ \E k \in 0..MaxNameLen : content \in [1..k -> NameChars]
    /\ outcome = [kind |-> "none"]
    /\ story = NoStory
    /\ errors = <<>>
    /\ reachable = {}
    /\ expanded = <<>>
    /\ raised = FALSE
    /\ OthersIdle
    /\ pc = "ready"

\* _normalize_section_name(content)
Normalize ==
    /\ pc = "ready"
    /\ outcome' = [kind |-> "name", name |-> _normalize_section_name(content)]
    /\ pc' = "once"
    /\ UNCHANGED <<content, story, errors, reachable, expanded, raised>>
    /\ UNCHANGED others

\* _normalize_section_name applied to the name it returned.
NormalizeAgain ==
    /\ pc = "once"
    /\ outcome' = [kind |-> "name", name |-> _normalize_section_name(outcome.name),
                   once |-> outcome.name]
    /\ pc' = "twice"
    /\ UNCHANGED <<content, story, errors, reachable, expanded, raised>>
    /\ UNCHANGED others

NextNormalize == Normalize \/ NormalizeAgain

SpecNormalize == InitNormalize /\ [][NextNormalize]_vars

----------------------------------------------------------------------------
(* C19.  Normalising a normalised identifier changes nothing:              *)
(* normalize(normalize(x)) = normalize(x).                                 *)
C19_NormalizeIdempotent ==
    pc = "twice" => outcome.name = outcome.once

\* A name with a capital, a gap and a hyphen has been normalised twice, the
\* first time into something else than itself.
C19_Witness ==
    /\ pc = "twice"
    /\ outcome.once # content
    /\ \E i \in DOMAIN content : content[i] = "A"
    /\ \E i \in DOMAIN content : IsGap(content[i])
    /\ \E i \in DOMAIN content : content[i] = "-"
    /\ outcome.name = outcome.once

----------------------------------------------------------------------------
IsStartDiagnostic(e) == e.kind = "start"
IsDanglingDiagnostic(e) == e.kind = "dangling"
IsOrphanDiagnostic(e) == e.kind = "orphan"

\* The choices of s without a section to lead to, from section i, choice j
\* on: section after section and, within a section, choice after choice.
RECURSIVE MissingTargetsFrom(_, _, _)
MissingTargetsFrom(s, i, j) ==
    IF i > Len(s.sections) THEN <<>>
    ELSE IF j > Len(s.sections[i].choices) THEN MissingTargetsFrom(s, i + 1, 1)
    ELSE (IF \E k \in DOMAIN s.sections :
                 s.sections[k].name = s.sections[i].choices[j].target
          THEN <<>>
          ELSE <<[section |-> s.sections[i].name,
                  target |-> s.sections[i].choices[j].target]>>)
         \o MissingTargetsFrom(s, i, j + 1)

\* The place of the section called name among the sections of s.
PlaceOf(s, name) == CHOOSE k \in DOMAIN s.sections : s.sections[k].name = name

(* C20.  The diagnostics validate returns come in this order: the missing  *)
(* start section, if it is reported, then the choices without a target     *)
(* section, section after section and choice after choice, then the        *)
(* orphans in the order of the sections.                                   *)
C20_DiagnosticsInOrder ==
    (pc = "done" /\ ~raised) =>
        LET S == SelectSeq(errors, IsStartDiagnostic)
            D == SelectSeq(errors, IsDanglingDiagnostic)
            O == SelectSeq(errors, IsOrphanDiagnostic)
            M == MissingTargetsFrom(story, 1, 1)
        IN  /\ errors = S \o D \o O
            /\ Len(S) <= 1
            /\ Len(D) = Len(M)
            /\ \A k \in DOMAIN D : D[k].section = M[k].section /\ D[k].target = M[k].target
            /\ \A a, b \in DOMAIN O :
                  a < b => PlaceOf(story, O[a].name) < PlaceOf(story, O[b].name)

\* validate has returned the three kinds of diagnostics at once: the start
\* section, choices without target section in two sections, and two
\* orphans.
C20_Witness ==
    /\ pc = "done"
    /\ ~raised
    /\ StartDiagnostics # {}
    /\ \E i, j \in DanglingDiagnostics : errors[i].section # errors[j].section
    /\ Cardinality(OrphanDiagnostics) >= 2

----------------------------------------------------------------------------
(* The specification of calls that run side by side: up to MaxCalls calls  *)
(* of parse and validate on one StoryCompiler instance, each in two steps  *)
(* that interleave with the steps of the others.  The class defines no     *)
(* attribute and no method assigns one: the instance stays as it is made.  *)

\* The number of calls.
MaxCalls == 2

compiler_vars == <<content, outcome, story, errors, reachable, expanded, raised, pc>>

\* No single call of the other specifications is part of the run.
CompilerIdle ==
    /\ content = <<>>
    /\ outcome = [kind |-> "none"]
    /\ story = NoStory
    /\ errors = <<>>
    /\ reachable = {}
    /\ expanded = <<>>
    /\ raised = FALSE
    /\ pc = "ready"

\* The texts of the parse calls: two sections with a choice, two headers
\* that collide, one section with a choice that leads nowhere.
CallTexts == {
    <<"-", "-", "-", "\n", "t", "i", "t", "l", "e", ":", " ", "T", "\n", "-", "-", "-", "\n", "[", "[", "a", "]", "]", "\n", "[", "[", "b", "]", "]", "\n", "-", "-", "-", "\n", "[", "[", "b", "]", "]", "\n">>,
    <<"-", "-", "-", "\n", "t", "i", "t", "l", "e", ":", " ", "T", "\n", "-", "-", "-", "\n", "[", "[", "a", "]", "]", "\n", "-", "-", "-", "\n", "[", "[", "A", "]", "]", "\n">>,
    <<"-", "-", "-", "\n", "t", "i", "t", "l", "e", ":", " ", "T", "\n", "-", "-", "-", "\n", "[", "[", "a", "]", "]", "\n", "[", "[", "x", "]", "]", "\n">>
}

\* What is called: parse on a text, or validate on a Story parse returns.
CallInputs ==
    {[op |-> "parse", arg |-> t] : t \in CallTexts}
    \cup {[op |-> "validate", arg |-> parse(t).story] :
             t \in {u \in CallTexts : parse(u).kind = "story"}}

\* A call before its first step.
Called(in) ==
    [op |-> in.op, arg |-> in.arg, pc |-> "called", locals |-> <<>>,
     result |-> [kind |-> "none"]]

InitCalls ==
    /\ CompilerIdle
    /\ calls \in [1..MaxCalls -> {Called(in) : in \in CallInputs}]
    /\ instance = <<>>
    /\ objects = 0
    /\ output = <<>>
    /\ page = <<>>

\* SectionsCall with seen_names kept as an attribute of the instance
\* instead of a local variable.
SectionsCallSharedSeen(self, s) ==
    LET seen == IF "seen_names" \in DOMAIN self THEN self["seen_names"] ELSE {}
        r == parse_chunks(re_split(content_without_metadata(s)), 1, <<>>, seen)
    IN  [result |-> r,
         self |-> [a \in {"seen_names"} |->
                      IF IsError(r) THEN seen
                      ELSE seen \cup {r.sections[i].name : i \in DOMAIN r.sections}]]

\* self._parse_sections(content): what it returns or raises, and the
\* instance after it.
SectionsCall(self, s) == [result |-> _parse_sections(s), self |-> self]

\* The first step of a parse call: the emptiness test and _parse_metadata.
ParseMetadataStep(c) ==
    /\ calls[c].pc = "called"
    /\ calls[c].op = "parse"
    /\ LET s == calls[c].arg
           m == _parse_metadata(s)
       IN  calls' = [calls EXCEPT ![c] =
              IF IsEmptyContent(s)
              THEN [@ EXCEPT !.pc = "returned",
                             !.result = ValidationError("Story content is empty")]
              ELSE IF IsError(m) THEN [@ EXCEPT !.pc = "returned", !.result = m]
              ELSE [@ EXCEPT !.pc = "sections", !.locals = m.metadata]]
    /\ UNCHANGED <<instance, objects, output, page>>
    /\ UNCHANGED compiler_vars

\* The second step of a parse call: _parse_sections and the rest of parse,
\* with the Story object it constructs.
ParseSectionsStep(c) ==
    /\ calls[c].pc = "sections"
    /\ LET r == SectionsCall(instance, calls[c].arg)
           f == FinishParse(calls[c].locals, r.result)
       IN  /\ instance' = r.self
           /\ objects' = IF f.kind = "story" THEN objects + 1 ELSE objects
           /\ calls' = [calls EXCEPT ![c] =
                 [@ EXCEPT !.pc = "returned",
                           !.result = IF f.kind = "story"
                                      THEN [kind |-> "story", story |-> f.story,
                                            id |-> objects + 1]
                                      ELSE f]]
    /\ UNCHANGED <<output, page>>
    /\ UNCHANGED compiler_vars

\* The first step of a validate call: the start test and the traversal.
ValidateTraverseStep(c) ==
    /\ calls[c].pc = "called"
    /\ calls[c].op = "validate"
    /\ calls' = [calls EXCEPT ![c] =
          [@ EXCEPT !.pc = "choices",
                    !.locals = [errors |-> CheckStart(calls[c].arg),
                                reachable |-> Traverse(calls[c].arg).reachable]]]
    /\ UNCHANGED <<instance, objects, output, page>>
    /\ UNCHANGED compiler_vars

\* The second step of a validate call: the two loops and the return.
ValidateChecksStep(c) ==
    /\ calls[c].pc = "choices"
    /\ calls' = [calls EXCEPT ![c] =
          [@ EXCEPT !.pc = "returned",
                    !.result = [kind |-> "errors",
                                errors |-> CheckOrphans(calls[c].arg, 1,
                                              CheckChoices(calls[c].arg, 1, 1,
                                                           calls[c].locals)).errors]]]
    /\ UNCHANGED <<instance, objects, output, page>>
    /\ UNCHANGED compiler_vars

NextCalls ==
    \E c \in DOMAIN calls :
        \/ ParseMetadataStep(c)
        \/ ParseSectionsStep(c)
        \/ ValidateTraverseStep(c)
        \/ ValidateChecksStep(c)

SpecCalls == InitCalls /\ [][NextCalls]_vars

----------------------------------------------------------------------------
----------------------------------------------------------------------------
(* The specification of the compile entry points: compile_story of the     *)
(* command line and compile_story of the HTTP handler, from the text they  *)
(* have read to their report, a step for each call they make.  `output`    *)
(* holds the entry point, the calls made so far, the files written and the *)
(* report: the exit code, or the status of the response.                   *)

\* The most lines that follow the opening of the text.
MaxCompileFragments == 4

\* The entry points, the command line with and without --no-zip.
EntryPoints == {
    [entry |-> "cli", zip |-> TRUE],
    [entry |-> "cli", zip |-> FALSE],
    [entry |-> "http", zip |-> FALSE]
}

InitCompile ==
    /\ \E o \in Openings : \E k \in 0..MaxCompileFragments :
          \E fs \in [1..k -> StartFragments] : content = o \o Concat(fs)
    /\ outcome = [kind |-> "none"]
    /\ story = NoStory
    /\ errors = <<>>
    /\ reachable = {}
    /\ expanded = <<>>
    /\ raised = FALSE
    /\ pc = "ready"
    /\ calls = <<>>
    /\ instance = <<>>
    /\ objects = 0
    /\ \E e \in EntryPoints :
          output = [entry |-> e.entry, zip |-> e.zip, trace |-> <<>>, files |-> {},
                    report |-> "none"]
    /\ page = <<>>

\* What an entry point reports for a ValidationError of parse, for a list
\* of diagnostics, and for a compiled story.
ParseErrorReport(entry) == IF entry = "cli" THEN "exit 1" ELSE "500 success false"
DiagnosticsReport(entry) == IF entry = "cli" THEN "exit 1" ELSE "400 success false"
SuccessReport(entry) == IF entry = "cli" THEN "exit 0" ELSE "200 success true"

\* HasErrors that takes every list for empty.
HasErrorsNever(errs) == FALSE

\* if errors:
HasErrors(errs) == errs # <<>>

\* story = compiler.parse(content)
EntryParse ==
    /\ pc = "ready"
    /\ outcome' = parse(content)
    /\ output' = [output EXCEPT !.trace = Append(@, "parse")]
    /\ pc' = "parsed"
    /\ UNCHANGED <<content, story, errors, reachable, expanded, raised>>
    /\ UNCHANGED <<calls, instance, objects, page>>

\* parse has raised: the message is reported and the entry point returns.
EntryReportParseError ==
    /\ pc = "parsed"
    /\ IsError(outcome)
    /\ output' = [output EXCEPT !.report = ParseErrorReport(output.entry)]
    /\ pc' = "returned"
    /\ UNCHANGED <<content, outcome, story, errors, reachable, expanded, raised>>
    /\ UNCHANGED <<calls, instance, objects, page>>

\* errors = compiler.validate(story)
EntryValidate ==
    /\ pc = "parsed"
    /\ ~IsError(outcome)
    /\ story' = outcome.story
    /\ LET r == validate(outcome.story)
       IN  /\ errors' = r.errors
           /\ reachable' = r.reachable
           /\ expanded' = r.expanded
           /\ raised' = r.raised
    /\ output' = [output EXCEPT !.trace = Append(@, "validate")]
    /\ pc' = "validated"
    /\ UNCHANGED <<content, outcome>>
    /\ UNCHANGED <<calls, instance, objects, page>>

\* validate has returned diagnostics: they are reported and the entry point
\* returns.
EntryReportDiagnostics ==
    /\ pc = "validated"
    /\ HasErrors(errors)
    /\ output' = [output EXCEPT !.report = DiagnosticsReport(output.entry)]
    /\ pc' = "returned"
    /\ UNCHANGED <<content, outcome, story, errors, reachable, expanded, raised>>
    /\ UNCHANGED <<calls, instance, objects, page>>

\* html = generator.generate(story, ...)
EntryGenerate ==
    /\ pc = "validated"
    /\ ~HasErrors(errors)
    /\ output' = [output EXCEPT !.trace = Append(@, "generate")]
    /\ pc' = "generated"
    /\ UNCHANGED <<content, outcome, story, errors, reachable, expanded, raised>>
    /\ UNCHANGED <<calls, instance, objects, page>>

\* The HTML file is written, on the command line the ZIP file after it
\* unless --no-zip is given, and success is reported.
EntryWrite ==
    /\ pc = "generated"
    /\ output' = [output EXCEPT
                     !.trace = Append(@, "write"),
                     !.files = IF output.zip THEN {"html", "zip"} ELSE {"html"},
                     !.report = SuccessReport(output.entry)]
    /\ pc' = "returned"
    /\ UNCHANGED <<content, outcome, story, errors, reachable, expanded, raised>>
    /\ UNCHANGED <<calls, instance, objects, page>>

NextCompile ==
    \/ EntryParse
    \/ EntryReportParseError
    \/ EntryValidate
    \/ EntryReportDiagnostics
    \/ EntryGenerate
    \/ EntryWrite

SpecCompile == InitCompile /\ [][NextCompile]_vars

----------------------------------------------------------------------------
\* The calls of output.trace that come before its n-th.
Before(n) == {output.trace[k] : k \in 1..(n - 1)}

(* C22.  An entry point calls parse first, validate only after parse has   *)
(* returned a Story, and generates and writes the HTML file only after     *)
(* validate has returned the empty list; when parse has raised or validate *)
(* has returned a diagnostic, it reports failure and has written no file.  *)
C22_ParseThenValidateThenWrite ==
    /\ \A n \in DOMAIN output.trace :
          /\ output.trace[n] = "parse" => n = 1
          /\ output.trace[n] = "validate" =>
                Before(n) = {"parse"} /\ outcome.kind = "story"
          /\ output.trace[n] = "generate" =>
                Before(n) = {"parse", "validate"} /\ errors = <<>>
          /\ output.trace[n] = "write" =>
                Before(n) = {"parse", "validate", "generate"} /\ errors = <<>>
    /\ output.files # {} =>
          /\ Len(output.trace) = 4
          /\ output.trace[4] = "write"
    /\ (pc = "returned" /\ (IsError(outcome) \/ errors # <<>>)) =>
          /\ output.report \in {"exit 1", "400 success false", "500 success false"}
          /\ output.files = {}

\* An entry point has reported the diagnostics of a Story that parse
\* returned, without writing a file.
C22_Witness ==
    /\ pc = "returned"
    /\ outcome.kind = "story"
    /\ errors # <<>>
    /\ output.trace = <<"parse", "validate">>
    /\ output.files = {}
    /\ output.report # "none"

----------------------------------------------------------------------------
(* The specification of parse on image markup: a fixed metadata block, the *)
(* header of one section, and a body of up to MaxImageFragments pieces of  *)
(* image markup and choice markup.                                         *)

\* The most pieces the body is made of.
MaxImageFragments == 5

ImageFragments == {
    <<"!", "[", "a", "]", "(">>,             \* an image opens, with an alt text
    <<"!", "[", "]", "(">>,              \* an image opens, with an empty alt text
    <<"p", "/", "Q">>,               \* a path
    <<" ">>,                 \* a blank
    <<")">>,                 \* the parenthesis closes
    <<"[", "[", "t", "]", "]">>              \* a choice
}

\* What every text of this specification begins with: the metadata block
\* and the header of the section.
ImageOpening == <<"-", "-", "-", "\n", "t", "i", "t", "l", "e", ":", " ", "T", "\n", "-", "-", "-", "\n", "[", "[", "s", "]", "]", "\n">>

InitImage ==
    /\ \E k \in 0..MaxImageFragments : \E fs \in [1..k -> ImageFragments] :
          content = ImageOpening \o Concat(fs)
    /\ outcome = [kind |-> "none"]
    /\ story = NoStory
    /\ errors = <<>>
    /\ reachable = {}
    /\ expanded = <<>>
    /\ raised = FALSE
    /\ OthersIdle
    /\ pc = "ready"

SpecImage == InitImage /\ [][NextParse]_vars

\* s[i..j] is image markup: ![alt text](path), the alt text without bracket
\* close, the path not empty and without parenthesis close.
IsImageMarkup(s, i, j) ==
    /\ StartsWithAt(s, i, <<"!", "[">>)
    /\ j <= Len(s)
    /\ s[j] = ")"
    /\ \E b \in (i + 2)..(j - 3) :
          /\ StartsWithAt(s, b, <<"]", "(">>)
          /\ \A k \in (i + 2)..(b - 1) : s[k] # "]"
          /\ \A k \in (b + 2)..(j - 1) : s[k] # ")"

\* The image markup occurrences of s from index `from` on, from left to
\* right, none overlapping the one before it.
RECURSIVE ImageOccurrencesFrom(_, _)
ImageOccurrencesFrom(s, from) ==
    LET starts == {i \in from..Len(s) : StartsWithAt(s, i, <<"!", "[">>)}
        ends == {j \in from..Len(s) : s[j] = ")"}
        forms == {o \in starts \X ends : IsImageMarkup(s, o[1], o[2])}
    IN  IF forms = {} THEN <<>>
        ELSE LET first == CHOOSE o \in forms : \A p \in forms : o[1] <= p[1]
             IN  <<first>> \o ImageOccurrencesFrom(s, first[2] + 1)

\* The alt text and the path of occurrence o as written.
AltText(s, o) == SubSeq(s, o[1] + 2, FirstOf(s, o[1] + 2, {"]"}) - 1)
PathText(s, o) == SubSeq(s, FirstOf(s, o[1] + 2, {"]"}) + 2, o[2] - 1)

\* The body of the one section as the author wrote it: the lines below the
\* header, which is the fourth line of the text.
AuthoredBody(c) == join_lines(split_lines(c), 5)

----------------------------------------------------------------------------
(* C23.  The content stored in a parsed Section is the body as authored    *)
(* (trimmed at both ends): every piece of choice markup and of image       *)
(* markup from which a Choice or an Image was extracted is still in it, at *)
(* its place and unchanged.                                                *)
C23_ContentKeepsMarkup ==
    pc # "ready" /\ outcome.kind = "story" =>
        \A n \in DOMAIN ParsedSections :
            LET sec == ParsedSections[n]
                body == strip(AuthoredBody(content))
                occ == Occurrences(body)
                img == ImageOccurrencesFrom(body, 1)
            IN  /\ sec.content = body
                /\ Len(sec.choices) = Cardinality(occ)
                /\ Len(sec.images) = Len(img)
                /\ \A o \in occ : IsChoiceMarkup(sec.content, o[1], o[2])
                /\ \A r \in DOMAIN img : IsImageMarkup(sec.content, img[r][1], img[r][2])

\* A section with a Choice and an Image has been parsed, and its content
\* holds the markup of both.
C23_Witness ==
    /\ pc = "parsed"
    /\ \E n \in DOMAIN ParsedSections :
          LET sec == ParsedSections[n]
          IN  /\ sec.choices # <<>>
              /\ sec.images # <<>>
              /\ Occurrences(sec.content) # {}
              /\ ImageOccurrencesFrom(sec.content, 1) # <<>>

----------------------------------------------------------------------------
(* C24 as stated.  For every image markup of a section's content there is  *)
(* one Image, in order, and its path is the text between the parentheses   *)
(* exactly as it is written.                                               *)
C24_PathAsAuthored ==
    \A n \in DOMAIN ParsedSections :
        LET sec == ParsedSections[n]
            img == ImageOccurrencesFrom(sec.content, 1)
        IN  /\ Len(sec.images) = Len(img)
            /\ \A r \in DOMAIN img : sec.images[r].path = PathText(sec.content, img[r])

\* C24, amended.  For every image markup of a section's content there is
\* one Image, in order; its path is the text between the parentheses with
\* the white space at its two ends removed and otherwise as written, and
\* its alt text is the trimmed text between the brackets, which may be
\* empty.
C24_PathTrimmed ==
    \A n \in DOMAIN ParsedSections :
        LET sec == ParsedSections[n]
            img == ImageOccurrencesFrom(sec.content, 1)
        IN  /\ Len(sec.images) = Len(img)
            /\ \A r \in DOMAIN img :
                  /\ sec.images[r].path = strip(PathText(sec.content, img[r]))
                  /\ sec.images[r].alt_text = strip(AltText(sec.content, img[r]))

\* An Image has been recorded whose path is written with a blank before it
\* and upper case in it, and one whose alt text is empty.
C24_Witness ==
    /\ pc = "parsed"
    /\ \E n \in DOMAIN ParsedSections :
          LET sec == ParsedSections[n]
              img == ImageOccurrencesFrom(sec.content, 1)
          IN  /\ \E r \in DOMAIN img :
                    /\ PathText(sec.content, img[r]) = <<" ", "p", "/", "Q">>
                    /\ sec.images[r].path = <<"p", "/", "Q">>
              /\ \E r \in DOMAIN sec.images : sec.images[r].alt_text = <<>>

----------------------------------------------------------------------------
(* C25.  Reading the metadata and splitting the sections end the metadata  *)
(* block at the same three-hyphen line: the \n--- that closes the match of *)
(* _parse_metadata is the \n--- that closes what _parse_sections removes,  *)
(* and a Story that parse returns holds one section for every non-empty    *)
(* chunk of the text below that line.                                      *)

\* The index of the \n--- that closes the block _parse_metadata reads, and
\* of the one that closes the block _parse_sections removes; 0 when there
\* is no match.
MetadataCloseAt(s) ==
    LET P == {p \in OpenEnds(s) : CloseStarts(s, p) # {}}
    IN  IF P = {} THEN 0 ELSE Min(CloseStarts(s, Max(P)))
SplitCloseAt(s) ==
    LET P == {p \in OpenEnds(s) : \E q \in CloseStarts(s, p) : SepEnds(s, q) # {}}
    IN  IF P = {} THEN 0
        ELSE Min({q \in CloseStarts(s, Max(P)) : SepEnds(s, q) # {}})

\* The text below the line on which the block read by _parse_metadata
\* closes.
BelowMetadata(s) ==
    SubSeq(s, FirstOf(s, MetadataCloseAt(s) + 4, {"\n"}) + 1, Len(s))

\* The chunks of a text that are not empty.
NonEmptyChunks(t) == SelectSeq(re_split(t), LAMBDA c : strip(c) # <<>>)

C25_OneEndOfMetadataBlock ==
    pc # "ready" /\ outcome.kind = "story" =>
        /\ MetadataCloseAt(content) = SplitCloseAt(content)
        /\ Len(outcome.story.sections) = Len(NonEmptyChunks(BelowMetadata(content)))

----------------------------------------------------------------------------
(* The specification of parse on section bodies: a fixed metadata block    *)
(* and up to MaxBodyFragments lines of headers, prose, empty lines and     *)
(* three-hyphen lines, the last of which may lack its line end.            *)

\* The most lines that follow the metadata block.
MaxBodyFragments == 5

BodyFragments == {
    <<"[", "[", "a", "]", "]", "\n">>,           \* a header
    <<"[", "[", "b", "]", "]", "\n">>,           \* another header
    <<"x", "\n">>,               \* a line of prose
    <<"-", "-", "-", "\n">>,             \* a three-hyphen line
    <<"\n">>,                \* an empty line
    <<"-", "-", "-">>                \* three hyphens and no line end
}

\* What every text of this specification begins with: the metadata block.
BodyOpening == <<"-", "-", "-", "\n", "t", "i", "t", "l", "e", ":", " ", "T", "\n", "-", "-", "-", "\n">>

InitBody ==
    /\ \E k \in 0..MaxBodyFragments : \E fs \in [1..k -> BodyFragments] :
          content = BodyOpening \o Concat(fs)
    /\ outcome = [kind |-> "none"]
    /\ story = NoStory
    /\ errors = <<>>
    /\ reachable = {}
    /\ expanded = <<>>
    /\ raised = FALSE
    /\ OthersIdle
    /\ pc = "ready"

SpecBody == InitBody /\ [][NextParse]_vars

\* The lines below the metadata block, which is the first three lines.
BodyLines(c) == LET L == split_lines(c) IN SubSeq(L, 4, Len(L))

\* Reading the lines L from line i on as the claim has it.  Above a chunk
\* (inBody false) empty lines are passed over and the first line that is
\* not empty must be a header; inside a section's body (inBody true) a line
\* of exactly three hyphens ends the section.  The result is the identifiers
\* of the sections in the order of their headers, or "raise".
RECURSIVE ReadChunks(_, _, _, _)
ReadChunks(L, i, inBody, names) ==
    IF i > Len(L) THEN [kind |-> "names", names |-> names]
    ELSE IF inBody
    THEN ReadChunks(L, i + 1, L[i] # Hyphens, names)
    ELSE IF strip(L[i]) = <<>> THEN ReadChunks(L, i + 1, FALSE, names)
    ELSE IF IsPlainHeader(strip(L[i]))
    THEN ReadChunks(L, i + 1, TRUE,
             Append(names, _normalize_section_name(
                               SubSeq(strip(L[i]), 3, Len(strip(L[i])) - 2))))
    ELSE [kind |-> "raise"]

\* No two elements of the sequence are equal.
Distinct(q) == \A i, j \in DOMAIN q : i # j => q[i] # q[j]

----------------------------------------------------------------------------
(* C26.  A line of exactly three hyphens in a section's body ends the      *)
(* section: what follows it is a new chunk, which must begin with a header *)
(* or parse raises; the sections of the Story are, in the order of the     *)
(* text, one for each chunk that is not empty, and in no section's content *)
(* does any text follow a three-hyphen line.                               *)
C26_ThreeHyphenLineEndsSection ==
    pc # "ready" =>
        LET read == ReadChunks(BodyLines(content), 1, FALSE, <<>>)
        IN  /\ read.kind = "raise" => IsError(outcome)
            /\ outcome.kind = "story" =>
                  /\ read.kind = "names"
                  /\ [n \in DOMAIN outcome.story.sections |->
                         outcome.story.sections[n].name] = read.names
                  /\ \A n \in DOMAIN outcome.story.sections :
                        LET L == split_lines(outcome.story.sections[n].content)
                        IN  \A k \in 1..(Len(L) - 1) : L[k] # Hyphens
            /\ read.kind = "names" /\ read.names # <<>> /\ Distinct(read.names) =>
                  outcome.kind = "story"

\* A Story of two sections has been returned for a text in which a
\* three-hyphen line follows prose in the body of the first.
C26_Witness ==
    /\ pc = "parsed"
    /\ outcome.kind = "story"
    /\ Len(outcome.story.sections) = 2
    /\ outcome.story.sections[1].content = <<"x">>
    /\ \E i \in 2..(Len(BodyLines(content)) - 1) :
          /\ BodyLines(content)[i - 1] = <<"x">>
          /\ BodyLines(content)[i] = Hyphens

----------------------------------------------------------------------------
(* The specification of validate called twice on one Story.  `story` is    *)
(* the object the caller holds, as the calls leave it; `output` keeps the  *)
(* Story as it was before the first call and the list that call returned.  *)

\* The sections of s from section i on, without the choices whose target is no section.
RECURSIVE WithoutDangling(_, _)
WithoutDangling(s, i) ==
    IF i > Len(s.sections) THEN <<>>
    ELSE <<[s.sections[i] EXCEPT
               !.choices = SelectSeq(@, LAMBDA c : c.target \in section_names(s))]>>
         \o WithoutDangling(s, i + 1)

\* StoryAfterValidate of a validate that drops the choices it reports.
StoryAfterValidatePruned(s) == [s EXCEPT !.sections = WithoutDangling(s, 1)]

\* The Story argument when validate returns: validate and _mark_reachable
\* read story.metadata, story.sections and the choices, and assign to none
\* of them.
StoryAfterValidate(s) == s

ValidateFirst ==
    /\ pc = "ready"
    /\ LET r == validate(story)
       IN  /\ errors' = r.errors
           /\ reachable' = r.reachable
           /\ expanded' = r.expanded
           /\ raised' = r.raised
           /\ output' = [before |-> story, first |-> r.errors]
    /\ story' = StoryAfterValidate(story)
    /\ pc' = "once"
    /\ UNCHANGED <<content, outcome>>
    /\ UNCHANGED <<calls, instance, objects, page>>

ValidateSecond ==
    /\ pc = "once"
    /\ LET r == validate(story)
       IN  /\ errors' = r.errors
           /\ reachable' = r.reachable
           /\ expanded' = r.expanded
           /\ raised' = r.raised
    /\ story' = StoryAfterValidate(story)
    /\ pc' = "twice"
    /\ UNCHANGED <<content, outcome>>
    /\ UNCHANGED others

NextRevalidate == ValidateFirst \/ ValidateSecond

SpecRevalidate == Init /\ [][NextRevalidate]_vars

----------------------------------------------------------------------------
----------------------------------------------------------------------------
(* C28.  A Story that parse returns has one section at least: for a text   *)
(* with a metadata block that holds a title and no chunk below it that is  *)
(* not empty, parse raises "No sections found"; so the start section that  *)
(* parse fills in, when the block holds no start value, is the identifier  *)
(* of a section of the Story.                                              *)
C28_StoryHasSection ==
    pc # "ready" =>
        /\ outcome.kind = "story" =>
              /\ outcome.story.sections # <<>>
              /\ (\/ ~HasStartField(metadata_match(content))
                  \/ StartValue(metadata_match(content)) = <<>>)
                     => outcome.story.metadata.start_section
                            \in section_names(outcome.story)
        /\ (/\ metadata_match(content) # None
            /\ HasTitleField(metadata_match(content))
            /\ NonEmptyChunks(BelowMetadata(content)) = <<>>)
               => outcome = ValidationError("No sections found")

\* parse has raised "No sections found" for a text that is a metadata
\* block with a title and a start value, and nothing below it.
C28_Witness ==
    /\ pc = "parsed"
    /\ metadata_match(content) # None
    /\ HasTitleField(metadata_match(content))
    /\ HasStartField(metadata_match(content))
    /\ NonEmptyChunks(BelowMetadata(content)) = <<>>
    /\ outcome = ValidationError("No sections found")

----------------------------------------------------------------------------
(* C29.  The traversal from the start section adds nothing to what         *)
(* validate returns: the list is the one the start check, the choice loop  *)
(* and the orphan loop give when they begin with nothing marked reachable, *)
(* and the sections reported as orphaned are those that are not the start  *)
(* section and are the target of no choice of any section, their own       *)
(* choices included.  (For the calls in which the traversal does not       *)
(* exceed the recursion limit.)                                            *)

\* The list of validate without its traversal.
ErrorsWithoutTraversal(s) ==
    CheckOrphans(s, 1,
        CheckChoices(s, 1, 1, [errors |-> CheckStart(s), reachable |-> {}])).errors

----------------------------------------------------------------------------
(* The specification of the generated page.  HTMLGenerator writes one      *)
(* section element for each section of the Story and the storyData object; *)
(* the script of the page answers the clicks on choice buttons.  `page` is *)
(* the document: the section elements inside #story in document order,     *)
(* each with its data-section-name, whether it still has its id, its       *)
(* display style and its choice buttons (data-target, disabled), and       *)
(* storyData.                                                              *)

\* The most choices a Story that is generated as a page holds, and the most
\* navigations the reader makes.
MaxPageChoices == 2
MaxClicks == 3

\* _generate_sections: the element of each section, the one of the start
\* section displayed and the others hidden, every button enabled.
_generate_sections(s) ==
    [i \in DOMAIN s.sections |->
        [name |-> s.sections[i].name,
         id |-> TRUE,
         display |-> IF s.sections[i].name = s.metadata.start_section
                     THEN "block" ELSE "none",
         buttons |-> [j \in DOMAIN s.sections[i].choices |->
                         [target |-> s.sections[i].choices[j].target,
                          disabled |-> FALSE]]]]

\* _generate_story_data
_generate_story_data(s) ==
    [currentSection |-> s.metadata.start_section,
     startSection |-> s.metadata.start_section,
     history |-> <<>>]

\* currentChoices.forEach(choice => ...): every button of the element
\* disabled; and clonedButtons.forEach(btn => ...): every button enabled.
DisableChoices(node) ==
    [node EXCEPT !.buttons = [j \in DOMAIN @ |-> [@[j] EXCEPT !.disabled = TRUE]]]
EnableChoices(node) ==
    [node EXCEPT !.buttons = [j \in DOMAIN @ |-> [@[j] EXCEPT !.disabled = FALSE]]]

\* The sequence q without its element at index t.
Without(q, t) == SubSeq(q, 1, t - 1) \o SubSeq(q, t + 1, Len(q))

\* navigateToSection(sectionName)
navigateToSection(pg, sectionName) ==
    LET T == {k \in DOMAIN pg.nodes : pg.nodes[k].id /\ pg.nodes[k].name = sectionName}
    IN  IF T = {} THEN pg
        ELSE LET t == Min(T)
                 templateSection == pg.nodes[t]
                 clone == [EnableChoices(templateSection) EXCEPT
                              !.id = FALSE, !.display = "block"]
                 shown == IF templateSection.display = "block"
                          THEN Append(pg.nodes, clone)
                          ELSE Append(Without(pg.nodes, t),
                                      [templateSection EXCEPT !.display = "block"])
             IN  [nodes |-> shown,
                  storyData |-> [pg.storyData EXCEPT
                                    !.currentSection = sectionName,
                                    !.history = Append(@, sectionName)]]

\* handleChoiceClick that leaves the buttons of the clicked element enabled.
HandleChoiceClickNoDisable(pg, n, b) ==
    navigateToSection(pg, pg.nodes[n].buttons[b].target)

\* handleChoiceClick(button), the button being button b of element n.
handleChoiceClick(pg, n, b) ==
    navigateToSection([pg EXCEPT !.nodes[n] = DisableChoices(@)],
                      pg.nodes[n].buttons[b].target)

\* The listener lets the click through: the button is displayed, so that
\* the reader can click it, and does not have the class disabled.
Clickable(pg, n, b) ==
    /\ n \in DOMAIN pg.nodes
    /\ pg.nodes[n].display = "block"
    /\ b \in DOMAIN pg.nodes[n].buttons
    /\ ~pg.nodes[n].buttons[b].disabled

InitPage ==
    /\ story \in Stories(MaxPageChoices)
    /\ StoryOK(story)
    /\ content = <<>>
    /\ outcome = [kind |-> "none"]
    /\ errors = <<>>
    /\ reachable = {}
    /\ expanded = <<>>
    /\ raised = FALSE
    /\ OthersIdle
    /\ pc = "ready"

\* HTMLGenerator.generate, and the page loaded.
Generate ==
    /\ pc = "ready"
    /\ page' = [nodes |-> _generate_sections(story),
                storyData |-> _generate_story_data(story)]
    /\ pc' = "page"
    /\ UNCHANGED <<content, outcome, story, errors, reachable, expanded, raised>>
    /\ UNCHANGED <<calls, instance, objects, output>>

\* The reader clicks a choice button.
Click ==
    /\ pc = "page"
    /\ Len(page.storyData.history) < MaxClicks
    /\ \E n \in DOMAIN page.nodes : \E b \in DOMAIN page.nodes[n].buttons :
          /\ Clickable(page, n, b)
          /\ page' = handleChoiceClick(page, n, b)
    /\ UNCHANGED <<content, outcome, story, errors, reachable, expanded, raised, pc>>
    /\ UNCHANGED <<calls, instance, objects, output>>

NextPage == Generate \/ Click

SpecPage == InitPage /\ [][NextPage]_vars

\* The elements of the page that are displayed and have an enabled button.
Live(pg) ==
    {n \in DOMAIN pg.nodes :
        /\ pg.nodes[n].display = "block"
        /\ \E b \in DOMAIN pg.nodes[n].buttons : ~pg.nodes[n].buttons[b].disabled}

\* What the click on button b of element n has made of the page.
ClickDone(n, b) ==
    LET node == page.nodes[n]
        target == node.buttons[b].target
        last == Len(page.nodes)
        T == {k \in DOMAIN page.nodes : page.nodes[k].id /\ page.nodes[k].name = target}
        AllDisabled(x) == \A j \in DOMAIN x.buttons : x.buttons[j].disabled
        AllEnabled(x) == \A j \in DOMAIN x.buttons : ~x.buttons[j].disabled
        Same(x, y) ==
            /\ x.name = y.name
            /\ DOMAIN x.buttons = DOMAIN y.buttons
            /\ \A j \in DOMAIN x.buttons : x.buttons[j].target = y.buttons[j].target
        Navigated ==
            /\ page'.storyData.currentSection = target
            /\ page'.storyData.history = Append(page.storyData.history, target)
    IN  IF T = {}
        THEN \* no template: the clicked element is disabled, nothing else
            /\ page'.storyData = page.storyData
            /\ Len(page'.nodes) = last
            /\ AllDisabled(page'.nodes[n])
            /\ \A k \in DOMAIN page.nodes : k # n => page'.nodes[k] = page.nodes[k]
        ELSE LET t == CHOOSE k \in T : TRUE
             IN  IF page.nodes[t].display = "none"
                 THEN \* first visit: the hidden template is shown, last
                     /\ Navigated
                     /\ Len(page'.nodes) = last
                     /\ page'.nodes[last] = [page.nodes[t] EXCEPT !.display = "block"]
                     /\ LET m == IF t < n THEN n - 1 ELSE n
                        IN  /\ AllDisabled(page'.nodes[m])
                            /\ Same(page'.nodes[m], node)
                 ELSE \* revisit: a clone with enabled buttons is appended
                     /\ Navigated
                     /\ Len(page'.nodes) = last + 1
                     /\ ~page'.nodes[last + 1].id
                     /\ page'.nodes[last + 1].display = "block"
                     /\ Same(page'.nodes[last + 1], page.nodes[t])
                     /\ AllEnabled(page'.nodes[last + 1])
                     /\ AllDisabled(page'.nodes[n])
                     /\ \A k \in DOMAIN page.nodes :
                           k # n => page'.nodes[k] = page.nodes[k]

----------------------------------------------------------------------------
(* C30.  In the generated page, whatever choices have been clicked, at     *)
(* most one displayed section element has an enabled choice button.  A     *)
(* click disables every choice of the element it is made in and then       *)
(* navigates: a target whose template is hidden has its template shown, a  *)
(* target whose template is displayed gets a clone with enabled buttons    *)
(* appended, and a target without template leaves currentSection and       *)
(* history as they are.                                                    *)
C30_OneLiveInstance ==
    /\ [](pc = "page" => Cardinality(Live(page)) <= 1)
    /\ [][pc = "page" /\ pc' = "page" =>
            \E n \in DOMAIN page.nodes : \E b \in DOMAIN page.nodes[n].buttons :
                Clickable(page, n, b) /\ ClickDone(n, b)]_vars

\* The reader has come back to a section: the page holds a clone, the one
\* element with enabled buttons, and an earlier click had a target without
\* template or a hidden template was shown.
C30_Witness ==
    /\ pc = "page"
    /\ Len(page.storyData.history) >= 2
    /\ \E n \in Live(page) : ~page.nodes[n].id
    /\ Cardinality(Live(page)) = 1
    /\ \E k \in DOMAIN page.nodes :
          /\ page.nodes[k].id
          /\ page.nodes[k].name # story.metadata.start_section
          /\ page.nodes[k].display = "block"

====
